---- MODULE Spec2Model ----
(***************************************************************************)
(* A model of the Fermata taxi backend: the place-name resolver            *)
(* (services/location_service.py), the fare calculator                     *)
(* (services/pricing_service.py), the routing client                       *)
(* (services/gebeta_service.py) and the trip-planning handler              *)
(* (routes/routes.py).                                                     *)
(*                                                                         *)
(* Text is a sequence of one-character strings.  Gazetteer coordinates are *)
(* integers in units of 10^-6 degree.                                      *)
(***************************************************************************)
EXTENDS Integers, Sequences, FiniteSets, TLC

(***************************************************************************)
(* Characters (ASCII), in ascending code-point order.                      *)
(***************************************************************************)
Digits == <<"0","1","2","3","4","5","6","7","8","9">>

Uppercase ==
    <<"A","B","C","D","E","F","G","H","I","J","K","L","M",
      "N","O","P","Q","R","S","T","U","V","W","X","Y","Z">>

Lowercase ==
    <<"a","b","c","d","e","f","g","h","i","j","k","l","m",
      "n","o","p","q","r","s","t","u","v","w","x","y","z">>

CodeOrder ==
    <<" ","!","%","-">> \o Digits \o Uppercase \o <<"_">> \o Lowercase

Range(s) == {s[i] : i \in DOMAIN s}

\* ord(c): the position of c in code-point order
Ord(c) == CHOOSE i \in DOMAIN CodeOrder : CodeOrder[i] = c

\* str.lower() on one character
Lower(c) ==
    IF c \in Range(Uppercase)
    THEN Lowercase[CHOOSE i \in DOMAIN Uppercase : Uppercase[i] = c]
    ELSE c

LowerStr(s) == [i \in DOMAIN s |-> Lower(s[i])]

\* the regular-expression classes \s and \w
IsSpace(c) == c = " "

IsWord(c) == c \in Range(Digits) \cup Range(Uppercase) \cup Range(Lowercase) \cup {"_"}

\* Python's ordering of strings: lexicographic by code point
RECURSIVE StrLess(_, _)
StrLess(x, y) ==
    IF y = <<>> THEN FALSE
    ELSE IF x = <<>> THEN TRUE
    ELSE IF x[1] # y[1] THEN Ord(x[1]) < Ord(y[1])
    ELSE StrLess(Tail(x), Tail(y))

(***************************************************************************)
(* LocationService._normalize_place_name                                   *)
(***************************************************************************)
RECURSIVE LStrip(_)
LStrip(s) == IF s # <<>> /\ IsSpace(s[1]) THEN LStrip(Tail(s)) ELSE s

RECURSIVE RStrip(_)
RStrip(s) ==
    IF s # <<>> /\ IsSpace(s[Len(s)]) THEN RStrip(SubSeq(s, 1, Len(s) - 1)) ELSE s

\* str.strip()
Strip(s) == RStrip(LStrip(s))

\* re.sub(r'\s+', ' ', s): every run of whitespace becomes one space
RECURSIVE CollapseSpaces(_)
CollapseSpaces(s) ==
    IF s = <<>> THEN <<>>
    ELSE IF IsSpace(s[1])
         THEN <<" ">> \o CollapseSpaces(LStrip(s))
         ELSE <<s[1]>> \o CollapseSpaces(Tail(s))

\* re.sub(r'[^\w\s]', '', s)
RemoveSpecial(s) == SelectSeq(s, LAMBDA c : IsWord(c) \/ IsSpace(c))

\* a variant that does not fold case
NormalizeKeepsCase(place_name) ==
    RemoveSpecial(CollapseSpaces(Strip(place_name)))

Normalize(place_name) ==
    RemoveSpecial(CollapseSpaces(Strip(LowerStr(place_name))))

(***************************************************************************)
(* LocationService.common_locations: the gazetteer, in table order.        *)
(***************************************************************************)
common_locations ==
    <<
      [key  |-> <<"m","e","x","i","c","o">>,
       name |-> <<"M","e","x","i","c","o">>,
       lat |-> 8989022, lng |-> 38790360],
      [key  |-> <<"a","y","e","r","t","e","n","a">>,
       name |-> <<"A","y","e","r","t","e","n","a">>,
       lat |-> 9030450, lng |-> 38765300],
      [key  |-> <<"b","o","l","e">>,
       name |-> <<"B","o","l","e">>,
       lat |-> 8980600, lng |-> 38757800],
      [key  |-> <<"b","o","l","e"," ","a","i","r","p","o","r","t">>,
       name |-> <<"B","o","l","e"," ","A","i","r","p","o","r","t">>,
       lat |-> 8980600, lng |-> 38757800],
      [key  |-> <<"k","a","z","a","n","c","h","i","s">>,
       name |-> <<"K","a","z","a","n","c","h","i","s">>,
       lat |-> 9012300, lng |-> 38756700],
      [key  |-> <<"m","e","g","e","n","a","g","n","a">>,
       name |-> <<"M","e","g","e","n","a","g","n","a">>,
       lat |-> 9012300, lng |-> 38756700],
      [key  |-> <<"t","o","r","h","a","i","l","o","c","h">>,
       name |-> <<"T","o","r","h","a","i","l","o","c","h">>,
       lat |-> 9045600, lng |-> 38789000],
      [key  |-> <<"m","e","r","k","a","t","o">>,
       name |-> <<"M","e","r","k","a","t","o">>,
       lat |-> 9012300, lng |-> 38756700],
      [key  |-> <<"a","d","d","i","s"," ","a","b","a","b","a"," ","u","n","i","v","e","r","s","i","t","y">>,
       name |-> <<"A","d","d","i","s"," ","A","b","a","b","a"," ","U","n","i","v","e","r","s","i","t","y">>,
       lat |-> 9045600, lng |-> 38789000],
      [key  |-> <<"a","a","u">>,
       name |-> <<"A","d","d","i","s"," ","A","b","a","b","a"," ","U","n","i","v","e","r","s","i","t","y">>,
       lat |-> 9045600, lng |-> 38789000],
      [key  |-> <<"k","i","r","k","o","s">>,
       name |-> <<"K","i","r","k","o","s">>,
       lat |-> 9030450, lng |-> 38765300],
      [key  |-> <<"a","r","a","d","a">>,
       name |-> <<"A","r","a","d","a">>,
       lat |-> 9012300, lng |-> 38756700],
      [key  |-> <<"p","i","a","z","z","a">>,
       name |-> <<"P","i","a","z","z","a">>,
       lat |-> 9012300, lng |-> 38756700],
      [key  |-> <<"e","n","t","o","t","o">>,
       name |-> <<"E","n","t","o","t","o">>,
       lat |-> 9012300, lng |-> 38756700],
      [key  |-> <<"s","a","r","i","s">>,
       name |-> <<"S","a","r","i","s">>,
       lat |-> 9012300, lng |-> 38756700],
      [key  |-> <<"s","u","m","m","i","t">>,
       name |-> <<"S","u","m","m","i","t">>,
       lat |-> 9012300, lng |-> 38756700],
      [key  |-> <<"k","o","l","f","e">>,
       name |-> <<"K","o","l","f","e">>,
       lat |-> 9012300, lng |-> 38756700],
      [key  |-> <<"g","e","r","j","i">>,
       name |-> <<"G","e","r","j","i">>,
       lat |-> 9012300, lng |-> 38756700],
      [key  |-> <<"c","m","e","s">>,
       name |-> <<"C","M","E","S">>,
       lat |-> 9012300, lng |-> 38756700],
      [key  |-> <<"e","d","n","a"," ","m","a","l","l">>,
       name |-> <<"E","d","n","a"," ","M","a","l","l">>,
       lat |-> 8980600, lng |-> 38757800],
      [key  |-> <<"u","n","i","t","y"," ","u","n","i","v","e","r","s","i","t","y">>,
       name |-> <<"U","n","i","t","y"," ","U","n","i","v","e","r","s","i","t","y">>,
       lat |-> 9012300, lng |-> 38756700],
      [key  |-> <<"e","t","h","i","o","p","i","a","n"," ","a","i","r","l","i","n","e","s">>,
       name |-> <<"E","t","h","i","o","p","i","a","n"," ","A","i","r","l","i","n","e","s">>,
       lat |-> 8980600, lng |-> 38757800],
      [key  |-> <<"a","d","d","i","s"," ","a","b","a","b","a">>,
       name |-> <<"A","d","d","i","s"," ","A","b","a","b","a">>,
       lat |-> 9012300, lng |-> 38756700],
      [key  |-> <<"a","d","d","i","s">>,
       name |-> <<"A","d","d","i","s"," ","A","b","a","b","a">>,
       lat |-> 9012300, lng |-> 38756700]
    >>

GazetteerKeys == [i \in DOMAIN common_locations |-> common_locations[i].key]

\* normalized_name in self.common_locations
InGazetteer(k) == \E i \in DOMAIN common_locations : common_locations[i].key = k

\* self.common_locations[k]
GazetteerEntry(k) ==
    common_locations[CHOOSE i \in DOMAIN common_locations : common_locations[i].key = k]

(***************************************************************************)
(* SQL:  column ILIKE pattern.  In the pattern % stands for any run of     *)
(* characters and _ for any one character; letters compare without case.   *)
(***************************************************************************)
RECURSIVE ILike(_, _)
ILike(s, p) ==
    IF p = <<>> THEN s = <<>>
    ELSE IF p[1] = "%"
         THEN ILike(s, Tail(p)) \/ (s # <<>> /\ ILike(Tail(s), p))
         ELSE /\ s # <<>>
              /\ (p[1] = "_" \/ Lower(p[1]) = Lower(s[1]))
              /\ ILike(Tail(s), Tail(p))

\* str.replace(' ', '%')
SpacesToPercent(s) == [i \in DOMAIN s |-> IF s[i] = " " THEN "%" ELSE s[i]]

(***************************************************************************)
(* difflib.SequenceMatcher(None, a, b).ratio() and get_close_matches, as   *)
(* the resolver uses them (no junk; texts far shorter than 200 characters, *)
(* so the popularity heuristic never applies).  Positions are 1-based, a   *)
(* range is lo .. hi-1.                                                    *)
(***************************************************************************)
RECURSIVE CommonPrefixLen(_, _, _, _, _, _)
CommonPrefixLen(a, i, ahi, b, j, bhi) ==
    IF i >= ahi \/ j >= bhi THEN 0
    ELSE IF a[i] # b[j] THEN 0
    ELSE 1 + CommonPrefixLen(a, i + 1, ahi, b, j + 1, bhi)

\* find_longest_match: <<i, j, k>> with a[i..i+k-1] = b[j..j+k-1], k largest,
\* then i least, then j least
FindLongestMatch(a, alo, ahi, b, blo, bhi) ==
    LET pairs == (alo .. ahi - 1) \X (blo .. bhi - 1)
        len   == [p \in pairs |-> CommonPrefixLen(a, p[1], ahi, b, p[2], bhi)]
    IN  IF pairs = {} THEN <<alo, blo, 0>>
        ELSE LET best == CHOOSE p \in pairs :
                            \A q \in pairs :
                                \/ len[p] > len[q]
                                \/ /\ len[p] = len[q]
                                   /\ \/ p[1] < q[1]
                                      \/ p[1] = q[1] /\ p[2] <= q[2]
             IN  IF len[best] = 0 THEN <<alo, blo, 0>>
                 ELSE <<best[1], best[2], len[best]>>

\* the total size of get_matching_blocks()
RECURSIVE MatchCount(_, _, _, _, _, _)
MatchCount(a, alo, ahi, b, blo, bhi) ==
    LET m == FindLongestMatch(a, alo, ahi, b, blo, bhi)
    IN  IF m[3] = 0 THEN 0
        ELSE m[3] + MatchCount(a, alo, m[1], b, blo, m[2])
                  + MatchCount(a, m[1] + m[3], ahi, b, m[2] + m[3], bhi)

\* ratio() = 2.0 * matches / (len(a) + len(b)), as the fraction <<num, den>>;
\* 1.0 when both are empty
Ratio(a, b) ==
    IF Len(a) + Len(b) = 0 THEN <<1, 1>>
    ELSE <<2 * MatchCount(a, 1, Len(a) + 1, b, 1, Len(b) + 1), Len(a) + Len(b)>>

FracLess(x, y) == x[1] * y[2] < y[1] * x[2]

FracGeq(x, y) == ~FracLess(x, y)

\* cutoff=0.6
Cutoff == <<6, 10>>

\* a variant that accepts a score only when it is strictly above the cutoff
ScoredMatchesStrict(word, possibilities, cutoff) ==
    LET scored == [i \in DOMAIN possibilities |->
                      [score |-> Ratio(possibilities[i], word), x |-> possibilities[i]]]
    IN  SelectSeq(scored, LAMBDA r : FracLess(cutoff, r.score))

\* the (score, x) tuples get_close_matches collects: one per possibility, in
\* iteration order, whose ratio reaches the cutoff.  (real_quick_ratio and
\* quick_ratio are upper bounds of ratio and reject nothing ratio accepts.)
ScoredMatches(word, possibilities, cutoff) ==
    LET scored == [i \in DOMAIN possibilities |->
                      [score |-> Ratio(possibilities[i], word), x |-> possibilities[i]]]
    IN  SelectSeq(scored, LAMBDA r : FracGeq(r.score, cutoff))

\* Python's ordering of the tuples (score, x)
TupleLess(r, s) ==
    \/ FracLess(r.score, s.score)
    \/ ~FracLess(s.score, r.score) /\ StrLess(r.x, s.x)

\* heapq.nlargest(1, result) is [max(result)]: the first greatest tuple
NLargest1(result) ==
    IF result = <<>> THEN <<>>
    ELSE LET i == CHOOSE i \in DOMAIN result :
                     /\ \A j \in DOMAIN result : ~TupleLess(result[i], result[j])
                     /\ \A j \in 1 .. i - 1 : TupleLess(result[j], result[i])
         IN  <<result[i]>>

\* get_close_matches(word, possibilities, n=1, cutoff): a list of at most one
get_close_matches(word, possibilities, cutoff) ==
    LET best == NLargest1(ScoredMatches(word, possibilities, cutoff))
    IN  [i \in DOMAIN best |-> best[i].x]

(***************************************************************************)
(* The persistent store's locations table.  A store is a sequence of rows  *)
(* (the table in the order queries return it), drawn from LocationPool.    *)
(* The nullable description is <<>> for NULL and <<text>> otherwise.       *)
(***************************************************************************)
LocationPool ==
    <<[name |-> <<"M","e","x","i","c","o"," ","S","q","u","a","r","e">>,
       description |-> <<>>,
       lat |-> 9010000, lng |-> 38761000, is_active |-> TRUE],
      [name |-> <<"B","o","l","e"," ","R","o","a","d">>,
       description |-> <<>>,
       lat |-> 8995000, lng |-> 38780000, is_active |-> TRUE],
      [name |-> <<"B","o","l","e"," ","B","r","i","d","g","e">>,
       description |-> <<>>,
       lat |-> 8990000, lng |-> 38770000, is_active |-> TRUE],
      [name |-> <<"S","a","r","b","e","t">>,
       description |-> << <<"n","e","a","r"," ","B","o","l","e">> >>,
       lat |-> 8998000, lng |-> 38740000, is_active |-> TRUE],
      [name |-> <<"B","o","l","e">>,
       description |-> <<>>,
       lat |-> 8981000, lng |-> 38758000, is_active |-> TRUE],
      [name |-> <<"X","y","z"," ","P","l","a","z","a">>,
       description |-> << <<"x","y","z">> >>,
       lat |-> 9020000, lng |-> 38750000, is_active |-> FALSE],
      [name |-> <<"N","o","w","h","e","r","e">>,
       description |-> <<>>,
       lat |-> 95000000, lng |-> 200000000, is_active |-> TRUE]>>

\* the most rows a store holds
MaxStoreRows == 3

\* the tables of at most max_rows rows: the rows of the pool at an ascending
\* choice of positions
Tables(pool, max_rows) ==
    LET Pick(S) == LET idx == CHOOSE f \in [1 .. Cardinality(S) -> S] :
                                  \A i, j \in 1 .. Cardinality(S) : i < j => f[i] < f[j]
                   IN  [i \in 1 .. Cardinality(S) |-> pool[idx[i]]]
    IN  {Pick(S) : S \in {T \in SUBSET DOMAIN pool : Cardinality(T) <= max_rows}}

Stores == Tables(LocationPool, MaxStoreRows)

\* the texts a client submits
PlaceNames ==
    {<<"M","e","x","i","c","o">>,
     <<"A","Y","E","R","T","E","N","A">>,
     <<" ","b","o","l","e"," ">>,
     <<"a","y","e","r","t","n","a">>,
     <<"m","e","x","i","c">>,
     <<"B","o","l">>,
     <<"s","a","r"," ","b","e","t">>,
     <<"s","a","r","b","a","t">>,
     <<"x","y","z">>,
     <<"z","z","z","z","n","o","t","a","p","l","a","c","e">>,
     <<"o">>,
     <<>>}

(***************************************************************************)
(* The resolver's tiers.  An Optional value is a sequence of length 0 or 1.*)
(***************************************************************************)
\* the WHERE clause of _find_in_database
FindWhere(row, normalized_name) ==
    /\ \/ ILike(row.name, <<"%">> \o normalized_name \o <<"%">>)
       \/ ILike(row.name, <<"%">> \o SpacesToPercent(normalized_name) \o <<"%">>)
    /\ row.is_active = TRUE

\* _find_in_database: scalar_one_or_none() gives None for no row, the row for
\* one, and raises MultipleResultsFound for more; every exception (that one,
\* or the query's I/O error when ~ok) is caught and None returned
find_in_database(normalized_name, rows, ok) ==
    IF ~ok THEN <<>>
    ELSE LET hits == SelectSeq(rows, LAMBDA row : FindWhere(row, normalized_name))
         IN  IF Len(hits) = 1 THEN hits ELSE <<>>

\* _fuzzy_match_location, computed once for each text a client submits
GazetteerMatches ==
    [w \in {Normalize(p) : p \in PlaceNames} |->
        get_close_matches(w, GazetteerKeys, Cutoff)]

\* _fuzzy_match_location
fuzzy_match_location(normalized_name) ==
    IF normalized_name \in DOMAIN GazetteerMatches
    THEN GazetteerMatches[normalized_name]
    ELSE get_close_matches(normalized_name, GazetteerKeys, Cutoff)

\* a variant that accepts the best candidate whatever its score
fuzzy_match_database_no_cutoff(normalized_name, rows, ok) ==
    IF ~ok THEN <<>>
    ELSE LET locations      == SelectSeq(rows, LAMBDA row : row.is_active = TRUE)
             location_names == [i \in DOMAIN locations |-> LowerStr(locations[i].name)]
             matches        == get_close_matches(normalized_name, location_names, <<0, 1>>)
         IN  IF matches = <<>> THEN <<>>
             ELSE LET i == CHOOSE i \in DOMAIN locations :
                              /\ LowerStr(locations[i].name) = matches[1]
                              /\ \A j \in 1 .. i - 1 :
                                     LowerStr(locations[j].name) # matches[1]
                  IN  <<locations[i]>>

\* _fuzzy_match_database: the first active row whose lower-cased name is the
\* match; None when there is none or the query failed
fuzzy_match_database(normalized_name, rows, ok) ==
    IF ~ok THEN <<>>
    ELSE LET locations      == SelectSeq(rows, LAMBDA row : row.is_active = TRUE)
             location_names == [i \in DOMAIN locations |-> LowerStr(locations[i].name)]
             matches        == get_close_matches(normalized_name, location_names, Cutoff)
         IN  IF matches = <<>> THEN <<>>
             ELSE LET i == CHOOSE i \in DOMAIN locations :
                              /\ LowerStr(locations[i].name) = matches[1]
                              /\ \A j \in 1 .. i - 1 :
                                     LowerStr(locations[j].name) # matches[1]
                  IN  <<locations[i]>>

\* Python's  x in s  for strings: x occurs in s as a contiguous run
IsSubstring(x, s) ==
    \E i \in 0 .. Len(s) - Len(x) : SubSeq(s, i + 1, i + Len(x)) = x

\* LocationResponse(name, lat, lng)
LocationResponse(loc) == [name |-> loc.name, lat |-> loc.lat, lng |-> loc.lng]

\* search_locations, step 1: the gazetteer entries, in table order, whose key or
\* lower-cased name contains the query
SearchGazetteer(normalized_query) ==
    LET hits == SelectSeq(common_locations,
                          LAMBDA e : \/ IsSubstring(normalized_query, e.key)
                                     \/ IsSubstring(normalized_query, LowerStr(e.name)))
    IN  [i \in DOMAIN hits |-> LocationResponse(hits[i])]

\* the WHERE clause of _search_database (NULL ILIKE pattern is not true)
SearchWhere(row, query) ==
    /\ \/ ILike(row.name, <<"%">> \o query \o <<"%">>)
       \/ /\ row.description # <<>>
          /\ ILike(row.description[1], <<"%">> \o query \o <<"%">>)
    /\ row.is_active = TRUE

\* seq[:n]
Take(seq, n) == SubSeq(seq, 1, IF n < Len(seq) THEN n ELSE Len(seq))

\* _search_database: the first `limit` matching rows; [] when the query failed
search_database(query, rows, limit, ok) ==
    IF ~ok THEN <<>>
    ELSE LET hits == Take(SelectSeq(rows, LAMBDA row : SearchWhere(row, query)), limit)
         IN  [i \in DOMAIN hits |-> LocationResponse(hits[i])]

\* a variant of the loop that keeps repeated names
RECURSIVE UniqueResultsNoDedupe(_, _, _)
UniqueResultsNoDedupe(results, unique_results, limit) ==
    IF results = <<>> THEN unique_results
    ELSE UniqueResultsNoDedupe(Tail(results),
                               IF Len(unique_results) < limit
                               THEN Append(unique_results, results[1])
                               ELSE unique_results,
                               limit)

\* search_locations, the loop over results: keep a result when its name was not
\* seen before and fewer than `limit` are kept
RECURSIVE UniqueResults(_, _, _)
UniqueResults(results, unique_results, limit) ==
    IF results = <<>> THEN unique_results
    ELSE LET result == results[1]
             keep   == /\ \A i \in DOMAIN unique_results : unique_results[i].name # result.name
                       /\ Len(unique_results) < limit
         IN  UniqueResults(Tail(results),
                           IF keep THEN Append(unique_results, result) ELSE unique_results,
                           limit)

\* what resolve_place_name returns: LocationResponse(name, lat, lng), tagged
\* with the tier that produced it, or None
Resolved(tier, loc) == [tier |-> tier, name |-> loc.name, lat |-> loc.lat, lng |-> loc.lng]

Unresolved == [tier |-> "UNRESOLVED", name |-> <<>>, lat |-> 0, lng |-> 0]

NoResult == [tier |-> "PENDING", name |-> <<>>, lat |-> 0, lng |-> 0]

(***************************************************************************)
(* PricingService.  Amounts are exact fractions <<numerator, denominator>> *)
(* with a positive denominator, in lowest terms; distance is in metres and *)
(* time in seconds.                                                        *)
(***************************************************************************)
RECURSIVE GCD(_, _)
GCD(a, b) == IF b = 0 THEN a ELSE GCD(b, a % b)

Abs(n) == IF n < 0 THEN -n ELSE n

Reduce(x) ==
    LET g == GCD(Abs(x[1]), x[2])
    IN  <<x[1] \div g, x[2] \div g>>

FracAdd(x, y) == Reduce(<<x[1] * y[2] + y[1] * x[2], x[2] * y[2]>>)

\* the product, cancelling across before multiplying
FracMul(x, y) ==
    LET g1 == GCD(Abs(x[1]), y[2])
        g2 == GCD(Abs(y[1]), x[2])
        h1 == IF g1 = 0 THEN 1 ELSE g1
        h2 == IF g2 = 0 THEN 1 ELSE g2
    IN  Reduce(<<(x[1] \div h1) * (y[1] \div h2), (x[2] \div h2) * (y[2] \div h1)>>)

FracMax(x, y) == IF FracLess(x, y) THEN y ELSE x

FracMin(x, y) == IF FracLess(y, x) THEN y ELSE x

\* round(x): the nearest integer, a tie going to the even one
RoundHalfEven(x) ==
    LET f == x[1] \div x[2]
        r == x[1] % x[2]
    IN  IF 2 * r < x[2] THEN f
        ELSE IF 2 * r > x[2] THEN f + 1
        ELSE IF f % 2 = 0 THEN f ELSE f + 1

\* PricingService.__init__
base_fare == 25

per_km_rate == 12

per_minute_rate == <<1, 2>>

minimum_fare == 30

maximum_fare == 500

night_rate_multiplier == <<13, 10>>

peak_hour_multiplier == <<12, 10>>

long_distance_discount == <<9, 10>>

\* the trip length in km above which the discount applies
LongDistanceKm == 20

\* a variant of the test that also discounts a trip of exactly 20 km
IsLongDistanceInclusive(distance_km) == FracGeq(distance_km, <<LongDistanceKm, 1>>)

\* distance_km > 20
IsLongDistance(distance_km) == FracLess(<<LongDistanceKm, 1>>, distance_km)

\* a variant in which the night and peak surcharges add up instead of
\* multiplying
UnclampedFareAdditive(distance_meters, time_seconds, is_night, is_peak_hour) ==
    LET distance_km      == Reduce(<<distance_meters, 1000>>)
        time_minutes     == Reduce(<<time_seconds, 60>>)
        distance_fare    == FracMul(distance_km, <<per_km_rate, 1>>)
        time_fare        == FracMul(time_minutes, per_minute_rate)
        base_calculation == FracAdd(FracAdd(<<base_fare, 1>>, distance_fare), time_fare)
        m1               == IF is_night THEN night_rate_multiplier ELSE <<1, 1>>
        multiplier       == IF is_peak_hour
                            THEN FracAdd(m1, FracAdd(peak_hour_multiplier, <<-1, 1>>))
                            ELSE m1
        discounted       == IF IsLongDistance(distance_km)
                            THEN FracMul(base_calculation, long_distance_discount)
                            ELSE base_calculation
    IN  FracMul(discounted, multiplier)

\* calculate_fare up to  final_fare = base_calculation * multiplier
UnclampedFare(distance_meters, time_seconds, is_night, is_peak_hour) ==
    LET distance_km      == Reduce(<<distance_meters, 1000>>)
        time_minutes     == Reduce(<<time_seconds, 60>>)
        distance_fare    == FracMul(distance_km, <<per_km_rate, 1>>)
        time_fare        == FracMul(time_minutes, per_minute_rate)
        base_calculation == FracAdd(FracAdd(<<base_fare, 1>>, distance_fare), time_fare)
        m1               == IF is_night THEN night_rate_multiplier ELSE <<1, 1>>
        multiplier       == IF is_peak_hour THEN FracMul(m1, peak_hour_multiplier) ELSE m1
        discounted       == IF IsLongDistance(distance_km)
                            THEN FracMul(base_calculation, long_distance_discount)
                            ELSE base_calculation
    IN  FracMul(discounted, multiplier)

\* a variant that applies no minimum
ClampFareNoMinimum(final_fare) == FracMin(<<maximum_fare, 1>>, final_fare)

\* max(minimum_fare, .) then min(maximum_fare, .)
ClampFare(final_fare) ==
    FracMin(<<maximum_fare, 1>>, FracMax(<<minimum_fare, 1>>, final_fare))

\* round(final_fare / 5.0) * 5.0
RoundToFive(final_fare) == RoundHalfEven(FracMul(final_fare, <<1, 5>>)) * 5

\* calculate_fare: the fields of the returned dictionary that depend on the
\* arguments
calculate_fare(distance_meters, time_seconds, is_night, is_peak_hour) ==
    LET distance_km == Reduce(<<distance_meters, 1000>>)
    IN  [total_fare    |-> RoundToFive(ClampFare(
                               UnclampedFare(distance_meters, time_seconds,
                                             is_night, is_peak_hour))),
         distance_fare |-> FracMul(distance_km, <<per_km_rate, 1>>),
         time_fare     |-> FracMul(Reduce(<<time_seconds, 60>>), per_minute_rate),
         night_rate    |-> is_night,
         peak_hour     |-> is_peak_hour,
         long_distance_discount |-> IsLongDistance(distance_km)]

\* a variant whose upper estimate applies the night rate alone
estimate_fare_range_night_only(distance_meters, time_seconds) ==
    LET min_fare == calculate_fare(distance_meters, time_seconds, FALSE, FALSE)
        max_fare == calculate_fare(distance_meters, time_seconds, TRUE, FALSE)
    IN  [minimum |-> min_fare.total_fare,
         maximum |-> max_fare.total_fare,
         estimated_average |-> Reduce(<<min_fare.total_fare + max_fare.total_fare, 2>>)]

\* a variant that takes the two calls the other way round
estimate_fare_range_swapped(distance_meters, time_seconds) ==
    LET min_fare == calculate_fare(distance_meters, time_seconds, TRUE, TRUE)
        max_fare == calculate_fare(distance_meters, time_seconds, FALSE, FALSE)
    IN  [minimum |-> min_fare.total_fare,
         maximum |-> max_fare.total_fare,
         estimated_average |-> Reduce(<<min_fare.total_fare + max_fare.total_fare, 2>>)]

\* estimate_fare_range: the fare range and the estimated average of the
\* returned dictionary
estimate_fare_range(distance_meters, time_seconds) ==
    LET min_fare == calculate_fare(distance_meters, time_seconds, FALSE, FALSE)
        max_fare == calculate_fare(distance_meters, time_seconds, TRUE, TRUE)
    IN  [minimum |-> min_fare.total_fare,
         maximum |-> max_fare.total_fare,
         estimated_average |-> Reduce(<<min_fare.total_fare + max_fare.total_fare, 2>>)]

(***************************************************************************)
(* GebetaService.  One HTTP exchange with the routing service ends in a    *)
(* response (a status and a body), a timeout or a request error.  A body   *)
(* either is not JSON or is an object whose fields may be absent (<<>>) or *)
(* present (<<value>>); a present number field is [num |-> TRUE, v |-> n], *)
(* or [num |-> FALSE, v |-> 0] when it holds something that is no number.  *)
(***************************************************************************)
\* self.timeout: the wait httpx applies to the exchange, in seconds
timeout == 30

Num(n) == [num |-> TRUE, v |-> n]

NotANumber == [num |-> FALSE, v |-> 0]

\* a message: its text and, where the text names one, the HTTP status
Msg(text, status) == [text |-> text, status |-> status]

\* a path of [lat, lng] points
SamplePath == << <<89890, 387904>>, <<90304, 387653>> >>

\* turn-by-turn instructions
SampleInstructions == <<"Head north", "Turn left">>

Bodies ==
    {[json |-> TRUE, totalDistance |-> <<Num(8500)>>, timetaken |-> <<Num(900)>>,
      direction |-> <<SamplePath>>, msg |-> <<Msg("Route found", 0)>>,
      instructions |-> <<SampleInstructions>>],
     [json |-> TRUE, totalDistance |-> <<Num(25000)>>, timetaken |-> <<Num(1800)>>,
      direction |-> <<SamplePath>>, msg |-> <<>>, instructions |-> <<>>],
     [json |-> TRUE, totalDistance |-> <<>>, timetaken |-> <<>>,
      direction |-> <<>>, msg |-> <<>>, instructions |-> <<>>],
     [json |-> TRUE, totalDistance |-> <<NotANumber>>, timetaken |-> <<Num(900)>>,
      direction |-> <<SamplePath>>, msg |-> <<>>, instructions |-> <<SampleInstructions>>],
     [json |-> FALSE, totalDistance |-> <<>>, timetaken |-> <<>>,
      direction |-> <<>>, msg |-> <<>>, instructions |-> <<>>]}

NoBody ==
    [json |-> FALSE, totalDistance |-> <<>>, timetaken |-> <<>>,
     direction |-> <<>>, msg |-> <<>>, instructions |-> <<>>]

\* the statuses other than 200 the routing service answers with
ErrorStatuses == {201, 401, 403, 404, 422, 429, 500, 503}

HttpOutcomes ==
    {[kind |-> "response", status |-> 200, body |-> b] : b \in Bodies}
    \cup {[kind |-> "response", status |-> c, body |-> NoBody] : c \in ErrorStatuses}
    \cup {[kind |-> "timeout", status |-> 0, body |-> NoBody],
          [kind |-> "request_error", status |-> 0, body |-> NoBody]}

\* RouteResponse(success=False, distance=0.0, time=0.0, coordinates=[], ...)
FailedRoute(message) ==
    [success |-> FALSE, distance |-> 0, time |-> 0, coordinates |-> <<>>,
     message |-> message, instructions |-> <<>>]

\* a variant that takes a body without totalDistance or timetaken as a
\* parsing failure
parse_success_response_strict(data) ==
    IF \/ data.totalDistance = <<>> \/ ~data.totalDistance[1].num
       \/ data.timetaken = <<>> \/ ~data.timetaken[1].num
    THEN FailedRoute(Msg("Error parsing response", 0))
    ELSE [success     |-> TRUE,
          distance    |-> data.totalDistance[1].v,
          time        |-> data.timetaken[1].v,
          coordinates |-> IF data.direction = <<>> THEN <<>> ELSE data.direction[1],
          message     |-> IF data.msg = <<>> THEN Msg("OK", 0) ELSE data.msg[1],
          instructions |-> data.instructions]

\* _parse_success_response: data.get(field, default) for each field; a value
\* RouteResponse does not accept raises, which is caught
parse_success_response(data) ==
    IF \/ data.totalDistance # <<>> /\ ~data.totalDistance[1].num
       \/ data.timetaken # <<>> /\ ~data.timetaken[1].num
    THEN FailedRoute(Msg("Error parsing response", 0))
    ELSE [success     |-> TRUE,
          distance    |-> IF data.totalDistance = <<>> THEN 0 ELSE data.totalDistance[1].v,
          time        |-> IF data.timetaken = <<>> THEN 0 ELSE data.timetaken[1].v,
          coordinates |-> IF data.direction = <<>> THEN <<>> ELSE data.direction[1],
          message     |-> IF data.msg = <<>> THEN Msg("OK", 0) ELSE data.msg[1],
          instructions |-> data.instructions]

\* a variant without the table of known statuses
parse_error_response_generic(status_code) ==
    FailedRoute(Msg("API error (status)", status_code))

\* _parse_error_response
parse_error_response(status_code) ==
    FailedRoute(
        CASE status_code = 401 -> Msg("Authentication failed - check API key", 0)
          [] status_code = 404 -> Msg("No route found between specified locations", 0)
          [] status_code = 422 -> Msg("Invalid input parameters", 0)
          [] status_code = 429 -> Msg("Rate limit exceeded", 0)
          [] status_code = 500 -> Msg("Gebeta API server error", 0)
          [] OTHER             -> Msg("API error (status)", status_code))

\* a variant whose handlers stand in the other order: TimeoutException is a
\* RequestError, so a timeout is taken by the RequestError handler
get_route_request_error_first(http) ==
    CASE http.kind = "timeout"       -> FailedRoute(Msg("Network error", 0))
      [] http.kind = "request_error" -> FailedRoute(Msg("Network error", 0))
      [] OTHER ->
            IF http.status = 200
            THEN IF http.body.json
                 THEN parse_success_response(http.body)
                 ELSE FailedRoute(Msg("Unexpected error", 0))
            ELSE parse_error_response(http.status)

\* get_route, given how the HTTP exchange ended
get_route(http) ==
    CASE http.kind = "timeout"       -> FailedRoute(Msg("Request timed out", 0))
      [] http.kind = "request_error" -> FailedRoute(Msg("Network error", 0))
      [] OTHER ->
            IF http.status = 200
            THEN IF http.body.json
                 THEN parse_success_response(http.body)
                 ELSE FailedRoute(Msg("Unexpected error", 0))
            ELSE parse_error_response(http.status)

(***************************************************************************)
(* The taxis table and the bounding box of routes.py.  Coordinates of      *)
(* requests and taxis are integers in units of 10^-4 degree; a NULL        *)
(* position is <<>>, a position <<lat, lng>>.                              *)
(***************************************************************************)
TaxiPool ==
    <<[id |-> "t1", status |-> "AVAILABLE", position |-> << <<89900, 387910>> >>],
      [id |-> "t2", status |-> "AVAILABLE", position |-> << <<89900, 388000>> >>],
      [id |-> "t3", status |-> "BUSY",      position |-> << <<89890, 387904>> >>],
      [id |-> "t4", status |-> "AVAILABLE", position |-> <<>>],
      [id |-> "t5", status |-> "AVAILABLE", position |-> << <<89950, 387900>> >>],
      [id |-> "t6", status |-> "OFFLINE",   position |-> << <<89880, 387900>> >>],
      [id |-> "t7", status |-> "MAINTENANCE", position |-> << <<89895, 387908>> >>],
      [id |-> "t8", status |-> "AVAILABLE", position |-> << <<-89900, 387910>> >>]>>

\* the most rows the taxis table holds
MaxTaxis == 3

TaxiTables == Tables(TaxiPool, MaxTaxis)

\* 1 degree is taken as 111 km
KmPerDegree == 111

\* radius_km / 111.0 degrees, in whole units (positions are whole units, so
\* comparing with the whole part decides BETWEEN)
LatDelta(radius_km) == (radius_km * 10000) \div KmPerDegree

\* radius_km / (111.0 * abs(lat)) degrees, in whole units; lat # 0
LngDelta(radius_km, lat) ==
    (radius_km * 10000 * 10000) \div (KmPerDegree * Abs(lat))

\* a variant of the WHERE clause that does not test the status
TaxiWhereAnyStatus(taxi, lat, lng, radius_km) ==
    /\ taxi.position # <<>>
    /\ Abs(taxi.position[1][1] - lat) <= LatDelta(radius_km)
    /\ Abs(taxi.position[1][2] - lng) <= LngDelta(radius_km, lat)

\* current_lat BETWEEN lat - lat_delta AND lat + lat_delta, the same for
\* current_lng, and status == AVAILABLE (a NULL position is in no range)
TaxiWhere(taxi, lat, lng, radius_km) ==
    /\ taxi.position # <<>>
    /\ Abs(taxi.position[1][1] - lat) <= LatDelta(radius_km)
    /\ Abs(taxi.position[1][2] - lng) <= LngDelta(radius_km, lat)
    /\ taxi.status = "AVAILABLE"

\* the radius plan_route_with_taxis searches, in km
PlanRadiusKm == 2

(***************************************************************************)
(* Popular routes: the static table of popular_routes.py and the routes    *)
(* table of the store.  Coordinates are integers in units of 10^-6 degree; *)
(* a NULL column is <<>>, a value <<v>>; a distance in km is a fraction.   *)
(***************************************************************************)
Place(lat, lng, name) == [lat |-> lat, lng |-> lng, name |-> name]

POPULAR_ROUTES ==
    [id \in {"mexico_to_ayertena", "megenagna_to_torhailoch", "bole_to_kazanchis",
             "addis_ababa_university_to_merkato", "kirkos_to_arada"} |->
        CASE id = "mexico_to_ayertena" ->
                [id |-> id,
                 origin |-> Place(8989022, 38790360, "Mexico"),
                 destination |-> Place(9030450, 38765300, "Ayertena"),
                 estimated_time |-> 15, estimated_distance |-> <<85, 10>>]
          [] id = "megenagna_to_torhailoch" ->
                [id |-> id,
                 origin |-> Place(9012300, 38756700, "Megenagna"),
                 destination |-> Place(9045600, 38789000, "Torhailoch"),
                 estimated_time |-> 12, estimated_distance |-> <<62, 10>>]
          [] id = "bole_to_kazanchis" ->
                [id |-> id,
                 origin |-> Place(8980600, 38757800, "Bole"),
                 destination |-> Place(9012300, 38756700, "Kazanchis"),
                 estimated_time |-> 18, estimated_distance |-> <<98, 10>>]
          [] id = "addis_ababa_university_to_merkato" ->
                [id |-> id,
                 origin |-> Place(9045600, 38789000, "Addis Ababa University"),
                 destination |-> Place(9012300, 38756700, "Merkato"),
                 estimated_time |-> 20, estimated_distance |-> <<115, 10>>]
          [] OTHER ->
                [id |-> id,
                 origin |-> Place(9030450, 38765300, "Kirkos"),
                 destination |-> Place(9012300, 38756700, "Arada"),
                 estimated_time |-> 14, estimated_distance |-> <<73, 10>>]]

\* get_route_by_id: POPULAR_ROUTES.get(route_id)
get_route_by_id(route_id) ==
    IF route_id \in DOMAIN POPULAR_ROUTES THEN <<POPULAR_ROUTES[route_id]>> ELSE <<>>

\* rows of the routes table; id is the primary key.  The first has the id of
\* a static route and other coordinates, the last has NULL in the nullable
\* columns.
RoutePool ==
    <<[id |-> "mexico_to_ayertena", description |-> <<"Mexico to Ayertena">>,
       origin_lat |-> 8990000, origin_lng |-> 38791000, origin_name |-> "Mexico Square",
       destination_lat |-> 9031000, destination_lng |-> 38766000,
       destination_name |-> "Ayertena Terminal",
       estimated_time |-> <<16>>, estimated_distance |-> << <<87, 10>> >>],
      [id |-> "piazza_to_saris", description |-> <<"Piazza to Saris">>,
       origin_lat |-> 9035000, origin_lng |-> 38752000, origin_name |-> "Piazza",
       destination_lat |-> 8950000, destination_lng |-> 38768000,
       destination_name |-> "Saris",
       estimated_time |-> <<25>>, estimated_distance |-> << <<121, 10>> >>],
      [id |-> "gerji_to_summit", description |-> <<>>,
       origin_lat |-> 8995000, origin_lng |-> 38810000, origin_name |-> "Gerji",
       destination_lat |-> 9005000, destination_lng |-> 38850000,
       destination_name |-> "Summit",
       estimated_time |-> <<>>, estimated_distance |-> <<>>]>>

\* the most rows the routes table holds
MaxRouteRows == 2

RouteTables == Tables(RoutePool, MaxRouteRows)

\* select(Route).where(Route.id == route_id), then scalar_one_or_none(): the
\* primary key leaves at most one row
RouteById(rows, route_id) ==
    SelectSeq(rows, LAMBDA route : route.id = route_id)

\* PopularRoute(id=route.id, ...): None in description, estimated_time or
\* estimated_distance is rejected; accepted tells whether the validation of
\* the installed pydantic takes a LocationResponse for a Location field
PopularRouteAccepts(route, accepted) ==
    /\ route.description # <<>>
    /\ route.estimated_time # <<>>
    /\ route.estimated_distance # <<>>
    /\ accepted

\* the PopularRoute built from a row
PopularRoute(route) ==
    [id |-> route.id,
     origin |-> Place(route.origin_lat, route.origin_lng, route.origin_name),
     destination |-> Place(route.destination_lat, route.destination_lng,
                           route.destination_name),
     estimated_time |-> route.estimated_time[1],
     estimated_distance |-> route.estimated_distance[1]]

(***************************************************************************)
(* State of the resolver request.                                          *)
(***************************************************************************)
VARIABLES
    store,     \* the locations table
    rPc,       \* where resolve_place_name is: idle, await_find, await_list, done
    rInput,    \* place_name
    rCalls,    \* the store queries the request has issued, in order
    rFaults,   \* for each answered query, whether it failed with an I/O error
    rResult,   \* the value returned
    sPc,       \* where search_locations is: idle, await_search, done
    sQuery,    \* query
    sLimit,    \* limit
    sFault,    \* whether the store query failed
    sDbResults, \* db_results: what _search_database returned
    sResults,  \* the list returned
    fareCalls,    \* how many calculate_fare calls are on record (0, 1 or 2)
    fareIn,       \* the arguments of the latest calculate_fare call
    fareOut,      \* what it returned
    prevFareIn,   \* the arguments of the call before it
    prevFareOut,  \* what that one returned
    taxis,     \* the taxis table
    pPc,       \* where plan_route_with_taxis is: idle, await_router, await_taxis, done
    pRequest,  \* origin and destination of the request
    pCalls,    \* the collaborators the request has called, in order
    pFaults,   \* for each answered query on the taxis table, whether it raised
    pRoute,    \* route_result
    pFare,     \* fare_result, <<>> while calculate_fare has not run
    pResponse, \* the HTTP response of the request
    nPc,       \* how often the normalizer was applied: idle, once, twice
    nInput,    \* the text given to _normalize_place_name
    nOutput,   \* its normalization
    nAgain,    \* the normalization of nOutput
    mCalls,         \* how many get_close_matches calls are on record (0 or 1)
    mWord,          \* word
    mPossibilities, \* possibilities, in iteration order
    mMatches,       \* the list returned
    tPc,       \* where get_nearby_taxis is: idle, await_taxis, done
    tRequest,  \* lat, lng and radius_km of the request
    tFaults,   \* for each answered query on the taxis table, whether it raised
    tResponse,  \* the HTTP response of the request
    dPc,       \* where calculate_route is: idle, await_router, done
    dRequest,  \* method, origin, destination and waypoints of the request
    dCalls,    \* the collaborators the request has called, in order
    dWaited,   \* the seconds the request has waited for the routing service
    dHttp,     \* how the HTTP exchange ended, <<>> while it has not
    dRoute,    \* result, <<>> while get_route has not returned
    dResponse,  \* the HTTP response of the request
    eCalls,    \* how many estimate_fare_range calls are on record (0 or 1)
    eIn,       \* the arguments of the latest estimate_fare_range call
    eOut,       \* what it returned
    routes,    \* the routes table
    qPc,       \* where the popular-route handler is: idle, await_store, await_router, done
    qRequest,  \* the endpoint (by_id or quick) and the route_id of the request
    qCalls,    \* the store, static table and router, as the request consulted them
    qFaults,   \* for each answered query on the routes table, whether it raised
    qPoints,   \* origin and destination given to get_route, <<>> while none
    qResponse,  \* the HTTP response of the request
    cReq,      \* for each client, the request it has in progress
    cSessions, \* the sessions AsyncSessionLocal has made, in the order made
    cStarted,  \* how many requests have been started
    gazetteer, \* LocationService.common_locations
    pricing    \* the parameters PricingService holds

resolveVars == <<rPc, rInput, rCalls, rFaults, rResult>>

searchVars == <<sPc, sQuery, sLimit, sFault, sDbResults, sResults>>

locationVars == <<store, resolveVars, searchVars>>

fareVars == <<fareCalls, fareIn, fareOut, prevFareIn, prevFareOut>>

planVars == <<taxis, pPc, pRequest, pCalls, pFaults, pRoute, pFare, pResponse>>

normVars == <<nPc, nInput, nOutput, nAgain>>

matchVars == <<mCalls, mWord, mPossibilities, mMatches>>

nearbyVars == <<tPc, tRequest, tFaults, tResponse>>

directionsVars == <<dPc, dRequest, dCalls, dWaited, dHttp, dRoute, dResponse>>

estimateVars == <<eCalls, eIn, eOut>>

popularVars == <<routes, qPc, qRequest, qCalls, qFaults, qPoints, qResponse>>

concurrentVars == <<cReq, cSessions, cStarted, gazetteer, pricing>>

vars == <<locationVars, fareVars, planVars, normVars, matchVars, nearbyVars,
      directionsVars, estimateVars, popularVars, concurrentVars>>

\* what the location service leaves alone
nonLocationVars == <<fareVars, planVars, normVars, matchVars, nearbyVars, directionsVars,
      estimateVars, popularVars, concurrentVars>>

\* what the fare calculator leaves alone
nonFareVars == <<locationVars, planVars, normVars, matchVars, nearbyVars, directionsVars,
      estimateVars, popularVars, concurrentVars>>

\* what the plan handler leaves alone
nonPlanVars == <<locationVars, fareVars, normVars, matchVars, nearbyVars, directionsVars,
      estimateVars, popularVars, concurrentVars>>

\* what the normalizer leaves alone
nonNormVars == <<locationVars, fareVars, planVars, matchVars, nearbyVars, directionsVars,
      estimateVars, popularVars, concurrentVars>>

\* what the nearby-taxis handler leaves alone (the taxis table apart)
nonNearbyVars ==
    <<locationVars, fareVars, pPc, pRequest, pCalls, pFaults, pRoute, pFare, pResponse,
      normVars, matchVars, directionsVars, estimateVars, popularVars, concurrentVars>>

\* what the approximate matcher leaves alone
nonMatchVars == <<locationVars, fareVars, planVars, normVars, nearbyVars, directionsVars,
      estimateVars, popularVars, concurrentVars>>

\* what the directions handlers leave alone
nonDirectionsVars ==
    <<locationVars, fareVars, planVars, normVars, matchVars, nearbyVars, estimateVars,
      popularVars, concurrentVars>>

\* what the fare estimate leaves alone
nonEstimateVars ==
    <<locationVars, fareVars, planVars, normVars, matchVars, nearbyVars,
      directionsVars, popularVars, concurrentVars>>

\* what the popular-route handlers leave alone
nonPopularVars ==
    <<locationVars, fareVars, planVars, normVars, matchVars, nearbyVars,
      directionsVars, estimateVars, concurrentVars>>

\* what the requests of concurrent clients leave alone, the tables among it
nonConcurrentVars ==
    <<locationVars, fareVars, planVars, normVars, matchVars, nearbyVars,
      directionsVars, estimateVars, popularVars>>

\* the limits a client asks for (10 is the default)
Limits == {1, 2, 10}

ResolveInit ==
    /\ rPc = "idle"
    /\ rInput = <<>>
    /\ rCalls = <<>>
    /\ rFaults = <<>>
    /\ rResult = NoResult

SearchInit ==
    /\ sPc = "idle"
    /\ sQuery = <<>>
    /\ sLimit = 0
    /\ sFault = FALSE
    /\ sDbResults = <<>>
    /\ sResults = <<>>

\* resolve_place_name up to its first await: normalize, tier 1, else issue
\* the query of _find_in_database
ResolveCall(place_name) ==
    /\ rPc = "idle"
    /\ sPc = "idle"
    /\ rInput' = place_name
    /\ rFaults' = <<>>
    /\ LET normalized_name == Normalize(place_name)
       IN  IF InGazetteer(normalized_name)
           THEN /\ rResult' = Resolved("EXACT_GAZETTEER", GazetteerEntry(normalized_name))
                /\ rCalls' = <<>>
                /\ rPc' = "done"
           ELSE /\ rResult' = NoResult
                /\ rCalls' = <<"find">>
                /\ rPc' = "await_find"
    /\ UNCHANGED <<nonLocationVars, store, searchVars>>

\* a variant that tries the gazetteer's fuzzy match before the store's answer
FindReplyFuzzyFirst(ok) ==
    /\ rPc = "await_find"
    /\ rFaults' = Append(rFaults, ~ok)
    /\ LET normalized_name == Normalize(rInput)
           db_location     == find_in_database(normalized_name, store, ok)
           fuzzy_match     == fuzzy_match_location(normalized_name)
       IN  IF fuzzy_match # <<>>
           THEN /\ rResult' = Resolved("FUZZY_GAZETTEER", GazetteerEntry(fuzzy_match[1]))
                /\ rPc' = "done"
                /\ UNCHANGED rCalls
           ELSE IF db_location # <<>>
           THEN /\ rResult' = Resolved("STORE_EXACT", db_location[1])
                /\ rPc' = "done"
                /\ UNCHANGED rCalls
           ELSE /\ rCalls' = Append(rCalls, "list")
                /\ rPc' = "await_list"
                /\ UNCHANGED rResult
    /\ UNCHANGED <<nonLocationVars, store, rInput, searchVars>>

\* a variant in which the query's I/O error is not caught in _find_in_database
\* and reaches resolve_place_name's own handler, which returns None
FindReplyUncaught(ok) ==
    /\ rPc = "await_find"
    /\ rFaults' = Append(rFaults, ~ok)
    /\ LET normalized_name == Normalize(rInput)
           db_location     == find_in_database(normalized_name, store, ok)
           fuzzy_match     == fuzzy_match_location(normalized_name)
       IN  IF ~ok
           THEN /\ rResult' = Unresolved
                /\ rPc' = "done"
                /\ UNCHANGED rCalls
           ELSE IF db_location # <<>>
           THEN /\ rResult' = Resolved("STORE_EXACT", db_location[1])
                /\ rPc' = "done"
                /\ UNCHANGED rCalls
           ELSE IF fuzzy_match # <<>>
           THEN /\ rResult' = Resolved("FUZZY_GAZETTEER", GazetteerEntry(fuzzy_match[1]))
                /\ rPc' = "done"
                /\ UNCHANGED rCalls
           ELSE /\ rCalls' = Append(rCalls, "list")
                /\ rPc' = "await_list"
                /\ UNCHANGED rResult
    /\ UNCHANGED <<nonLocationVars, store, rInput, searchVars>>

\* the find query answers (ok) or fails: tier 2, then tier 3, else issue the
\* list-active query of _fuzzy_match_database
FindReply(ok) ==
    /\ rPc = "await_find"
    /\ rFaults' = Append(rFaults, ~ok)
    /\ LET normalized_name == Normalize(rInput)
           db_location     == find_in_database(normalized_name, store, ok)
           fuzzy_match     == fuzzy_match_location(normalized_name)
       IN  IF db_location # <<>>
           THEN /\ rResult' = Resolved("STORE_EXACT", db_location[1])
                /\ rPc' = "done"
                /\ UNCHANGED rCalls
           ELSE IF fuzzy_match # <<>>
           THEN /\ rResult' = Resolved("FUZZY_GAZETTEER", GazetteerEntry(fuzzy_match[1]))
                /\ rPc' = "done"
                /\ UNCHANGED rCalls
           ELSE /\ rCalls' = Append(rCalls, "list")
                /\ rPc' = "await_list"
                /\ UNCHANGED rResult
    /\ UNCHANGED <<nonLocationVars, store, rInput, searchVars>>

\* the list-active query answers or fails: tier 4, else None
ListReply(ok) ==
    /\ rPc = "await_list"
    /\ rFaults' = Append(rFaults, ~ok)
    /\ LET db_fuzzy_match == fuzzy_match_database(Normalize(rInput), store, ok)
       IN  rResult' = IF db_fuzzy_match # <<>>
                      THEN Resolved("FUZZY_STORE", db_fuzzy_match[1])
                      ELSE Unresolved
    /\ rPc' = "done"
    /\ UNCHANGED <<nonLocationVars, store, rInput, rCalls, searchVars>>

\* the caller takes the result; the service is ready for the next request
ResolveReturn ==
    /\ rPc = "done"
    /\ rPc' = "idle"
    /\ rInput' = <<>>
    /\ rCalls' = <<>>
    /\ rFaults' = <<>>
    /\ rResult' = NoResult
    /\ UNCHANGED <<nonLocationVars, store, searchVars>>

\* search_locations up to its await: normalize and issue the query of
\* _search_database
SearchCall(query, limit) ==
    /\ sPc = "idle"
    /\ rPc = "idle"
    /\ sQuery' = query
    /\ sLimit' = limit
    /\ sPc' = "await_search"
    /\ UNCHANGED <<nonLocationVars, store, resolveVars, sFault, sDbResults, sResults>>

\* a variant that puts the store's matches before the gazetteer's
SearchReplyStoreFirst(ok) ==
    /\ sPc = "await_search"
    /\ sFault' = ~ok
    /\ LET normalized_query == Normalize(sQuery)
           results          == SearchGazetteer(normalized_query)
           db_results       == search_database(normalized_query, store, sLimit, ok)
       IN  /\ sDbResults' = db_results
           /\ sResults' = UniqueResults(db_results \o results, <<>>, sLimit)
    /\ sPc' = "done"
    /\ UNCHANGED <<nonLocationVars, store, resolveVars, sQuery, sLimit>>

\* the search query answers or fails: gazetteer matches, then the store's,
\* then the loop that drops repeated names and stops at limit
SearchReply(ok) ==
    /\ sPc = "await_search"
    /\ sFault' = ~ok
    /\ LET normalized_query == Normalize(sQuery)
           results          == SearchGazetteer(normalized_query)
           db_results       == search_database(normalized_query, store, sLimit, ok)
       IN  /\ sDbResults' = db_results
           /\ sResults' = UniqueResults(results \o db_results, <<>>, sLimit)
    /\ sPc' = "done"
    /\ UNCHANGED <<nonLocationVars, store, resolveVars, sQuery, sLimit>>

SearchReturn ==
    /\ sPc = "done"
    /\ sPc' = "idle"
    /\ sQuery' = <<>>
    /\ sLimit' = 0
    /\ sFault' = FALSE
    /\ sDbResults' = <<>>
    /\ sResults' = <<>>
    /\ UNCHANGED <<nonLocationVars, store, resolveVars>>

(***************************************************************************)
(* Calls of calculate_fare.  The latest two calls are kept, so that two    *)
(* fares can be compared.                                                   *)
(***************************************************************************)
\* the largest distance asked about, in steps of 10 km
MaxDistanceSteps == 5

Distances ==
    {10000 * k : k \in 0..MaxDistanceSteps} \cup {8500, 19500, 20001}

Times == {0, 900}

FareArgs(distance_meters, time_seconds, is_night, is_peak_hour) ==
    [distance_meters |-> distance_meters, time_seconds |-> time_seconds,
     is_night |-> is_night, is_peak_hour |-> is_peak_hour]

NoFareArgs == FareArgs(0, 0, FALSE, FALSE)

NoFare ==
    [total_fare |-> 0, distance_fare |-> <<0, 1>>, time_fare |-> <<0, 1>>,
     night_rate |-> FALSE, peak_hour |-> FALSE, long_distance_discount |-> FALSE]

FareInit ==
    /\ fareCalls = 0
    /\ fareIn = NoFareArgs
    /\ fareOut = NoFare
    /\ prevFareIn = NoFareArgs
    /\ prevFareOut = NoFare

FareCall(distance_meters, time_seconds, is_night, is_peak_hour) ==
    /\ fareCalls' = IF fareCalls < 2 THEN fareCalls + 1 ELSE 2
    /\ prevFareIn' = fareIn
    /\ prevFareOut' = fareOut
    /\ fareIn' = FareArgs(distance_meters, time_seconds, is_night, is_peak_hour)
    /\ fareOut' = calculate_fare(distance_meters, time_seconds, is_night, is_peak_hour)
    /\ UNCHANGED nonFareVars

(***************************************************************************)
(* Calls of estimate_fare_range.                                           *)
(***************************************************************************)
\* the largest distance asked about, in steps of 500 m
MaxEstimateSteps == 60

\* up to 30 km in steps, the first distance past the discount threshold and
\* two distances whose plain fare is above the maximum
EstimateDistances ==
    {500 * k : k \in 0 .. MaxEstimateSteps} \cup {20001, 50000, 100000}

EstimateArgs(distance_meters, time_seconds) ==
    [distance_meters |-> distance_meters, time_seconds |-> time_seconds]

NoEstimate == [minimum |-> 0, maximum |-> 0, estimated_average |-> <<0, 1>>]

EstimateIdle ==
    /\ eCalls = 0
    /\ eIn = EstimateArgs(0, 0)
    /\ eOut = NoEstimate

EstimateCall(distance_meters, time_seconds) ==
    /\ eCalls' = 1
    /\ eIn' = EstimateArgs(distance_meters, time_seconds)
    /\ eOut' = estimate_fare_range(distance_meters, time_seconds)
    /\ UNCHANGED nonEstimateVars

(***************************************************************************)
(* GET /route/plan: plan_route_with_taxis.                                 *)
(***************************************************************************)
\* origin and destination of the requests; one origin lies on the equator
PlanRequests ==
    {[origin |-> o, destination |-> d] :
        o \in {<<89890, 387904>>, <<0, 387904>>},
        d \in {<<90304, 387653>>, <<89806, 387578>>}}

NoRequest == [origin |-> <<0, 0>>, destination |-> <<0, 0>>]

PlanIdle ==
    /\ pPc = "idle"
    /\ pRequest = NoRequest
    /\ pCalls = <<>>
    /\ pFaults = <<>>
    /\ pRoute = <<>>
    /\ pFare = <<>>
    /\ pResponse = <<>>

\* taxi.to_dict(), for the columns the model keeps
to_dict(taxi) ==
    [id |-> taxi.id, current_location |-> taxi.position, status |-> taxi.status]

\* raise HTTPException(status_code, detail)
HTTPException(status_code, detail) ==
    [status_code |-> status_code, detail |-> <<detail>>, body |-> <<>>]

\* the rows the query of step 3 selects
NearbyTaxis(rows, lat, lng) ==
    SelectSeq(rows, LAMBDA taxi : TaxiWhere(taxi, lat, lng, PlanRadiusKm))

\* the dictionary of step 4
PlanBody(request, route_result, fare_result, nearby_taxis) ==
    [route |-> [distance    |-> route_result.distance,
                time        |-> route_result.time,
                coordinates |-> route_result.coordinates,
                message     |-> route_result.message],
     fare |-> fare_result,
     nearby_taxis |-> [i \in DOMAIN nearby_taxis |-> to_dict(nearby_taxis[i])],
     origin |-> request.origin,
     destination |-> request.destination]

\* the handler up to its first await: the router is called with the
\* coordinates of the request
PlanCall(request) ==
    /\ pPc = "idle"
    /\ pPc' = "await_router"
    /\ pRequest' = request
    /\ pCalls' = <<"router">>
    /\ pFaults' = <<>>
    /\ pRoute' = <<>>
    /\ pFare' = <<>>
    /\ pResponse' = <<>>
    /\ UNCHANGED <<nonPlanVars, taxis>>

\* a variant that queries the taxis table whatever the router said
RouterReplyIgnoresFailure(http) ==
    /\ pPc = "await_router"
    /\ pRoute' = <<get_route(http)>>
    /\ pFare' = <<calculate_fare(get_route(http).distance, get_route(http).time,
                                 FALSE, FALSE)>>
    /\ IF pRequest.origin[1] = 0
       THEN /\ pResponse' = <<HTTPException(500, Msg("Error planning route", 0))>>
            /\ pPc' = "done"
            /\ UNCHANGED pCalls
       ELSE /\ pCalls' = Append(pCalls, "taxis")
            /\ pPc' = "await_taxis"
            /\ UNCHANGED pResponse
    /\ UNCHANGED <<nonPlanVars, taxis, pRequest, pFaults>>

\* get_route returns: steps 1 and 2 and the deltas of step 3, up to the
\* query on the taxis table
RouterReply(http) ==
    /\ pPc = "await_router"
    /\ pRoute' = <<get_route(http)>>
    /\ IF ~get_route(http).success
       THEN /\ pResponse' = <<HTTPException(400, get_route(http).message)>>
            /\ pPc' = "done"
            /\ UNCHANGED <<pFare, pCalls>>
       ELSE /\ pFare' = <<calculate_fare(get_route(http).distance,
                                         get_route(http).time, FALSE, FALSE)>>
            /\ IF pRequest.origin[1] = 0
               \* 2.0 / (111.0 * abs(origin_lat)) raises ZeroDivisionError,
               \* which the handler turns into a 500
               THEN /\ pResponse' = <<HTTPException(500, Msg("Error planning route", 0))>>
                    /\ pPc' = "done"
                    /\ UNCHANGED pCalls
               ELSE /\ pCalls' = Append(pCalls, "taxis")
                    /\ pPc' = "await_taxis"
                    /\ UNCHANGED pResponse
    /\ UNCHANGED <<nonPlanVars, taxis, pRequest, pFaults>>

\* the query on the taxis table returns (ok) or raises (~ok): step 4, or
\* the handler's except clause
TaxiReply(ok) ==
    /\ pPc = "await_taxis"
    /\ pPc' = "done"
    /\ pFaults' = Append(pFaults, ~ok)
    /\ pResponse' =
        IF ok
        THEN <<[status_code |-> 200, detail |-> <<>>,
                body |-> <<PlanBody(pRequest, pRoute[1], pFare[1],
                    NearbyTaxis(taxis, pRequest.origin[1], pRequest.origin[2]))>>]>>
        ELSE <<HTTPException(500, Msg("Error planning route", 0))>>
    /\ UNCHANGED <<nonPlanVars, taxis, pRequest, pCalls, pRoute, pFare>>

\* the response is sent; the handler is free for the next request
PlanReturn ==
    /\ pPc = "done"
    /\ pPc' = "idle"
    /\ pRequest' = NoRequest
    /\ pCalls' = <<>>
    /\ pFaults' = <<>>
    /\ pRoute' = <<>>
    /\ pFare' = <<>>
    /\ pResponse' = <<>>
    /\ UNCHANGED <<nonPlanVars, taxis>>

(***************************************************************************)
(* _normalize_place_name, applied to a text and then to its own result.    *)
(***************************************************************************)
\* the longest text drawn from the alphabet
MaxTextLen == 5

Alphabet == {"a", "B", " ", "-"}

Texts ==
    UNION {[1 .. n -> Alphabet] : n \in 0 .. MaxTextLen}
    \cup {<<"a"," ","-"," ","b">>, <<"a","b","c"," ","!">>, <<"M","e","x","i","c","o">>}

NormalizeIdle ==
    /\ nPc = "idle"
    /\ nInput = <<>>
    /\ nOutput = <<>>
    /\ nAgain = <<>>

NormalizeCall(place_name) ==
    /\ nPc = "idle"
    /\ nPc' = "once"
    /\ nInput' = place_name
    /\ nOutput' = Normalize(place_name)
    /\ nAgain' = <<>>
    /\ UNCHANGED nonNormVars

NormalizeAgain ==
    /\ nPc = "once"
    /\ nPc' = "twice"
    /\ nAgain' = Normalize(nOutput)
    /\ UNCHANGED <<nonNormVars, nInput, nOutput>>

NormalizeReturn ==
    /\ nPc = "twice"
    /\ nPc' = "idle"
    /\ nInput' = <<>>
    /\ nOutput' = <<>>
    /\ nAgain' = <<>>
    /\ UNCHANGED nonNormVars

(***************************************************************************)
(* get_close_matches(word, possibilities, n=1, cutoff=0.6), as              *)
(* _fuzzy_match_location and _fuzzy_match_database call it.                *)
(***************************************************************************)
\* the most candidates in a list drawn from CandidatePool
MaxCandidates == 2

\* against "bol": two candidates of equal score 6/7, one at 6/10 and one at
\* 6/11
CandidatePool ==
    {<<"b","o","l","a">>, <<"b","o","l","b">>, <<"b","o","l","x","x","x","x">>, <<"b","o","l","x","x","x","x","x">>}

\* the lists of distinct candidates, in every order, and the gazetteer's keys
CandidateLists ==
    {s \in UNION {[1 .. n -> CandidatePool] : n \in 0 .. MaxCandidates} :
        \A i, j \in DOMAIN s : i # j => s[i] # s[j]}
    \cup {GazetteerKeys}

Words ==
    {<<"b","o","l">>, <<"b","o","l","x">>, <<"b","o","l","e">>, <<"a","y","e","r","t","n","a">>,
     <<"m","e","x","i","c">>, <<"x","y","z">>, <<>>}

MatchIdle ==
    /\ mCalls = 0
    /\ mWord = <<>>
    /\ mPossibilities = <<>>
    /\ mMatches = <<>>

MatchCall(word, possibilities) ==
    /\ mCalls' = 1
    /\ mWord' = word
    /\ mPossibilities' = possibilities
    /\ mMatches' = get_close_matches(word, possibilities, Cutoff)
    /\ UNCHANGED nonMatchVars

(***************************************************************************)
(* GET /taxis/nearby: get_nearby_taxis.                                    *)
(***************************************************************************)
\* the centres asked about (north of, on and south of the equator, and one
\* at a latitude of 95 degrees) and the radii, in km (5 is the default)
NearbyRequests ==
    {[lat |-> c[1], lng |-> c[2], radius_km |-> r] :
        c \in {<<89890, 387904>>, <<0, 387904>>, <<-89890, 387904>>,
               <<950000, 387904>>},
        r \in {2, 5, 10}}

NoNearbyRequest == [lat |-> 0, lng |-> 0, radius_km |-> 0]

NearbyIdle ==
    /\ tPc = "idle"
    /\ tRequest = NoNearbyRequest
    /\ tFaults = <<>>
    /\ tResponse = <<>>

\* the handler up to its await: the deltas, then the query on the taxis
\* table; radius_km / (111.0 * abs(lat)) raises ZeroDivisionError for lat = 0,
\* which the handler turns into a 500
NearbyCall(request) ==
    /\ tPc = "idle"
    /\ tRequest' = request
    /\ tFaults' = <<>>
    /\ IF request.lat = 0
       THEN /\ tResponse' = <<HTTPException(500, Msg("Error fetching nearby taxis", 0))>>
            /\ tPc' = "done"
       ELSE /\ tResponse' = <<>>
            /\ tPc' = "await_taxis"
    /\ UNCHANGED <<nonNearbyVars, taxis>>

\* the query returns (ok) or raises (~ok)
NearbyReply(ok) ==
    /\ tPc = "await_taxis"
    /\ tPc' = "done"
    /\ tFaults' = Append(tFaults, ~ok)
    /\ tResponse' =
        IF ok
        THEN LET rows == SelectSeq(taxis, LAMBDA taxi :
                             TaxiWhere(taxi, tRequest.lat, tRequest.lng,
                                       tRequest.radius_km))
             IN  <<[status_code |-> 200, detail |-> <<>>,
                    body |-> <<[i \in DOMAIN rows |-> to_dict(rows[i])]>>]>>
        ELSE <<HTTPException(500, Msg("Error fetching nearby taxis", 0))>>
    /\ UNCHANGED <<nonNearbyVars, taxis, tRequest>>

NearbyReturn ==
    /\ tPc = "done"
    /\ tPc' = "idle"
    /\ tRequest' = NoNearbyRequest
    /\ tFaults' = <<>>
    /\ tResponse' = <<>>
    /\ UNCHANGED <<nonNearbyVars, taxis>>

(***************************************************************************)
(* POST and GET /route/directions: calculate_route, calculate_route_get.   *)
(***************************************************************************)
\* validate_coordinates, for coordinates in units of 10^-4 degree
validate_coordinates(lat, lng) ==
    /\ -90 * 10000 <= lat /\ lat <= 90 * 10000
    /\ -180 * 10000 <= lng /\ lng <= 180 * 10000

\* the requests: GET takes origin and destination, POST waypoints as well;
\* latitudes of 95 and -91 degrees and a longitude of 190 degrees are out of
\* range, 90 and 180 degrees are the ends of the ranges
DirectionsRequests ==
    {[method |-> "GET", origin |-> o, destination |-> d, waypoints |-> <<>>] :
        o \in {<<89890, 387904>>, <<900000, 1800000>>, <<950000, 387904>>,
               <<89890, 1900000>>},
        d \in {<<90304, 387653>>, <<-910000, 387653>>}}
    \cup
    {[method |-> "POST", origin |-> <<89890, 387904>>,
      destination |-> <<90304, 387653>>, waypoints |-> w] :
        w \in {<<>>, << <<90000, 387700>> >>, << <<950000, 387700>> >>}}

NoDirectionsRequest ==
    [method |-> "GET", origin |-> <<0, 0>>, destination |-> <<0, 0>>, waypoints |-> <<>>]

DirectionsIdle ==
    /\ dPc = "idle"
    /\ dRequest = NoDirectionsRequest
    /\ dCalls = <<>>
    /\ dWaited = 0
    /\ dHttp = <<>>
    /\ dRoute = <<>>
    /\ dResponse = <<>>

\* the handler up to its await: origin and destination are validated, then
\* get_route opens the exchange with the routing service
DirectionsCall(request) ==
    /\ dPc = "idle"
    /\ dRequest' = request
    /\ dWaited' = 0
    /\ dHttp' = <<>>
    /\ dRoute' = <<>>
    /\ IF /\ validate_coordinates(request.origin[1], request.origin[2])
          /\ validate_coordinates(request.destination[1], request.destination[2])
       THEN /\ dCalls' = <<"router">>
            /\ dResponse' = <<>>
            /\ dPc' = "await_router"
       ELSE /\ dCalls' = <<>>
            /\ dResponse' = <<HTTPException(422, Msg("Invalid coordinates provided", 0))>>
            /\ dPc' = "done"
    /\ UNCHANGED nonDirectionsVars

\* a second passes while the exchange is open; httpx waits no longer than
\* self.timeout
RouterWait ==
    /\ dPc = "await_router"
    /\ dWaited < timeout
    /\ dWaited' = dWaited + 1
    /\ UNCHANGED <<nonDirectionsVars, dPc, dRequest, dCalls, dHttp, dRoute, dResponse>>

\* the exchange ends, in a timeout exactly when the wait has run out;
\* get_route returns and the handler answers
DirectionsReply(http) ==
    /\ dPc = "await_router"
    /\ (http.kind = "timeout") <=> (dWaited = timeout)
    /\ dHttp' = <<http>>
    /\ dRoute' = <<get_route(http)>>
    /\ dResponse' =
        IF ~get_route(http).success
        THEN <<HTTPException(400, get_route(http).message)>>
        ELSE <<[status_code |-> 200, detail |-> <<>>, body |-> <<get_route(http)>>]>>
    /\ dPc' = "done"
    /\ UNCHANGED <<nonDirectionsVars, dRequest, dCalls, dWaited>>

\* the response is sent; the handler is free for the next request
DirectionsReturn ==
    /\ dPc = "done"
    /\ dPc' = "idle"
    /\ dRequest' = NoDirectionsRequest
    /\ dCalls' = <<>>
    /\ dWaited' = 0
    /\ dHttp' = <<>>
    /\ dRoute' = <<>>
    /\ dResponse' = <<>>
    /\ UNCHANGED nonDirectionsVars

(***************************************************************************)
(* GET /routes/{route_id} and GET /route/quick/{route_id}:                 *)
(* get_route_by_id_endpoint, calculate_popular_route.                      *)
(***************************************************************************)
\* the ids asked about: in both tables, in the static table only, in the
\* store only (two of them), in neither
RouteIds ==
    {"mexico_to_ayertena", "bole_to_kazanchis", "piazza_to_saris", "gerji_to_summit",
     "no_such_route"}

PopularRequests ==
    {[endpoint |-> e, route_id |-> id] : e \in {"by_id", "quick"}, id \in RouteIds}

NoPopularRequest == [endpoint |-> "by_id", route_id |-> ""]

PopularIdle ==
    /\ qPc = "idle"
    /\ qRequest = NoPopularRequest
    /\ qCalls = <<>>
    /\ qFaults = <<>>
    /\ qPoints = <<>>
    /\ qResponse = <<>>

\* the detail of the handler's except Exception clause
PopularError(endpoint) ==
    IF endpoint = "by_id"
    THEN Msg("Error fetching route", 0)
    ELSE Msg("Error calculating popular route", 0)

\* a variant without the clause except HTTPException: raise, so that the
\* handler's except Exception clause takes the HTTPException
RaiseInHandlerWrapped(endpoint, status_code, detail) ==
    HTTPException(500, PopularError(endpoint))

\* raise HTTPException(...) inside the handler's try: the clause
\* except HTTPException: raise passes it on as it is
RaiseInHandler(endpoint, status_code, detail) ==
    HTTPException(status_code, detail)

\* the handler up to its first await: the query on the routes table
PopularCall(request) ==
    /\ qPc = "idle"
    /\ qPc' = "await_store"
    /\ qRequest' = request
    /\ qCalls' = <<"store">>
    /\ qFaults' = <<>>
    /\ qPoints' = <<>>
    /\ qResponse' = <<>>
    /\ UNCHANGED <<nonPopularVars, routes>>

\* the query on the routes table returns (ok) or raises (~ok): the row, or
\* the static route in its place, or a 404; get_route_by_id_endpoint answers
\* with the route, calculate_popular_route goes on to call get_route
StoreReply(ok, accepted) ==
    /\ qPc = "await_store"
    /\ qFaults' = Append(qFaults, ~ok)
    /\ LET route        == RouteById(routes, qRequest.route_id)
           static_route == get_route_by_id(qRequest.route_id)
       IN  IF ~ok
           THEN /\ qResponse' = <<HTTPException(500, PopularError(qRequest.endpoint))>>
                /\ qPc' = "done"
                /\ UNCHANGED <<qCalls, qPoints>>
           ELSE IF route = <<>> /\ static_route = <<>>
           THEN /\ qResponse' = <<RaiseInHandler(qRequest.endpoint, 404,
                                                 Msg("Route with ID not found", 0))>>
                /\ qPc' = "done"
                /\ qCalls' = Append(qCalls, "static")
                /\ UNCHANGED qPoints
           ELSE IF qRequest.endpoint = "by_id"
           THEN /\ qPc' = "done"
                /\ qCalls' = IF route = <<>> THEN Append(qCalls, "static") ELSE qCalls
                /\ UNCHANGED qPoints
                /\ qResponse' =
                      IF route = <<>>
                      THEN <<[status_code |-> 200, detail |-> <<>>, body |-> static_route]>>
                      ELSE IF PopularRouteAccepts(route[1], accepted)
                      THEN <<[status_code |-> 200, detail |-> <<>>,
                              body |-> <<PopularRoute(route[1])>>]>>
                      ELSE <<HTTPException(500, PopularError(qRequest.endpoint))>>
           ELSE /\ qPc' = "await_router"
                /\ qCalls' = IF route = <<>>
                             THEN qCalls \o <<"static", "router">>
                             ELSE Append(qCalls, "router")
                /\ qPoints' =
                      IF route = <<>>
                      THEN << <<static_route[1].origin.lat, static_route[1].origin.lng>>,
                              <<static_route[1].destination.lat,
                                static_route[1].destination.lng>> >>
                      ELSE << <<route[1].origin_lat, route[1].origin_lng>>,
                              <<route[1].destination_lat, route[1].destination_lng>> >>
                /\ UNCHANGED qResponse
    /\ UNCHANGED <<nonPopularVars, routes, qRequest>>

\* get_route returns to calculate_popular_route
QuickRouterReply(http) ==
    /\ qPc = "await_router"
    /\ qPc' = "done"
    /\ qResponse' =
        IF ~get_route(http).success
        THEN <<RaiseInHandler(qRequest.endpoint, 400, get_route(http).message)>>
        ELSE <<[status_code |-> 200, detail |-> <<>>, body |-> <<get_route(http)>>]>>
    /\ UNCHANGED <<nonPopularVars, routes, qRequest, qCalls, qFaults, qPoints>>

\* the response is sent; the handler is free for the next request
PopularReturn ==
    /\ qPc = "done"
    /\ qPc' = "idle"
    /\ qRequest' = NoPopularRequest
    /\ qCalls' = <<>>
    /\ qFaults' = <<>>
    /\ qPoints' = <<>>
    /\ qResponse' = <<>>
    /\ UNCHANGED <<nonPopularVars, routes>>

(***************************************************************************)
(* Requests of concurrent clients.  A handler is a coroutine: what it does *)
(* next is decided by its arguments and the replies it has had so far.     *)
(* Each operator below gives, for the replies so far (oks: for each query  *)
(* on the store whether it succeeded; http: how the exchange with the      *)
(* routing service ended, <<>> while it has not), the await the handler    *)
(* stops at, or what it returns or raises.                                 *)
(***************************************************************************)
Awaits(collaborator) == [next |-> collaborator, value |-> <<>>]

Returns(value) == [next |-> "returned", value |-> <<value>>]

Raises(exception) == [next |-> "raised", value |-> <<exception>>]

\* resolve_place_name
resolve_place_name(place_name, rows, oks) ==
    LET normalized_name == Normalize(place_name)
    IN  IF InGazetteer(normalized_name)
        THEN Returns(Resolved("EXACT_GAZETTEER", GazetteerEntry(normalized_name)))
        ELSE IF Len(oks) = 0 THEN Awaits("store")
        ELSE LET db_location == find_in_database(normalized_name, rows, oks[1])
                 fuzzy_match == fuzzy_match_location(normalized_name)
             IN  IF db_location # <<>>
                 THEN Returns(Resolved("STORE_EXACT", db_location[1]))
                 ELSE IF fuzzy_match # <<>>
                 THEN Returns(Resolved("FUZZY_GAZETTEER", GazetteerEntry(fuzzy_match[1])))
                 ELSE IF Len(oks) = 1 THEN Awaits("store")
                 ELSE LET db_fuzzy_match ==
                              fuzzy_match_database(normalized_name, rows, oks[2])
                      IN  Returns(IF db_fuzzy_match # <<>>
                                  THEN Resolved("FUZZY_STORE", db_fuzzy_match[1])
                                  ELSE Unresolved)

\* search_locations
search_locations(query, limit, rows, oks) ==
    LET normalized_query == Normalize(query)
    IN  IF Len(oks) = 0 THEN Awaits("store")
        ELSE Returns(UniqueResults(
                 SearchGazetteer(normalized_query)
                     \o search_database(normalized_query, rows, limit, oks[1]),
                 <<>>, limit))

\* plan_route_with_taxis
plan_route_with_taxis(request, rows, http, oks) ==
    IF http = <<>> THEN Awaits("router")
    ELSE LET route_result == get_route(http[1])
         IN  IF ~route_result.success
             THEN Raises(HTTPException(400, route_result.message))
             ELSE IF request.origin[1] = 0
             THEN Raises(HTTPException(500, Msg("Error planning route", 0)))
             ELSE IF Len(oks) = 0 THEN Awaits("store")
             ELSE IF ~oks[1]
             THEN Raises(HTTPException(500, Msg("Error planning route", 0)))
             ELSE Returns([status_code |-> 200, detail |-> <<>>,
                           body |-> <<PlanBody(request, route_result,
                               calculate_fare(route_result.distance, route_result.time,
                                              FALSE, FALSE),
                               NearbyTaxis(rows, request.origin[1], request.origin[2]))>>])

\* get_nearby_taxis
get_nearby_taxis(request, rows, oks) ==
    IF request.lat = 0
    THEN Raises(HTTPException(500, Msg("Error fetching nearby taxis", 0)))
    ELSE IF Len(oks) = 0 THEN Awaits("store")
    ELSE IF ~oks[1]
    THEN Raises(HTTPException(500, Msg("Error fetching nearby taxis", 0)))
    ELSE LET found == SelectSeq(rows, LAMBDA taxi :
                          TaxiWhere(taxi, request.lat, request.lng, request.radius_km))
         IN  Returns([status_code |-> 200, detail |-> <<>>,
                      body |-> <<[i \in DOMAIN found |-> to_dict(found[i])]>>])

\* the pricing endpoints: no await, the service is called and its result
\* returned
calculate_fare_endpoint(args) ==
    Returns(calculate_fare(args.distance_meters, args.time_seconds,
                           args.is_night, args.is_peak_hour))

estimate_fare_range_endpoint(args) ==
    Returns(estimate_fare_range(args.distance_meters, args.time_seconds))

\* the handler of a request that takes a session, run on the replies it
\* has had
Resume(req, locations, vehicles) ==
    CASE req.kind = "resolve" ->
             resolve_place_name(req.input, locations, req.oks)
      [] req.kind = "search" ->
             search_locations(req.input.query, req.input.limit, locations, req.oks)
      [] req.kind = "plan" ->
             plan_route_with_taxis(req.input, vehicles, req.http, req.oks)
      [] OTHER ->
             get_nearby_taxis(req.input, vehicles, req.oks)

\* the handler of any request, run on the replies it has had
Run(req, locations, vehicles) ==
    CASE req.kind = "fare" -> calculate_fare_endpoint(req.input)
      [] req.kind = "estimate" -> estimate_fare_range_endpoint(req.input)
      [] OTHER -> Resume(req, locations, vehicles)

(***************************************************************************)
(* get_db: the session of a request.  A session is made by                 *)
(* AsyncSessionLocal(), handed to the handler at the yield, and after the  *)
(* handler has returned or raised it is rolled back (when it raised) and   *)
(* closed.  A session runs one statement at a time: execute on a session   *)
(* that is closed, or busy with the statement of another task, fails.      *)
(***************************************************************************)
\* the clients that have requests in progress at the same time
Clients == {1, 2}

\* the most requests started in a run
MaxRequests == 2

OpenSession == [state |-> "open", busy |-> 0, events |-> <<>>]

\* a variant that hands every request the session made first
SharedSession(sessions) == 1

\* AsyncSessionLocal(): a new session, identified by its place in the list
AsyncSessionLocal(sessions) == Len(sessions) + 1

\* a variant without the finally clause and the async with block
get_db_no_finally(raised) ==
    IF raised THEN <<"rollback">> ELSE <<"close">>

\* get_db after the yield, as the calls made on the session: the except
\* clause rolls back and raises again, the finally clause closes, and the
\* exit of the async with block closes once more
get_db(raised) ==
    IF raised THEN <<"rollback", "close", "close">> ELSE <<"close", "close">>

IdleRequest ==
    [kind |-> "idle", input |-> <<>>, pc |-> "idle", db |-> 0, exit |-> 0,
     http |-> <<>>, oks |-> <<>>, answers |-> <<>>, result |-> <<>>,
     outcome |-> "pending"]

\* the parameters set in PricingService.__init__
PricingParameters ==
    [base_fare |-> base_fare, per_km_rate |-> per_km_rate,
     per_minute_rate |-> per_minute_rate, minimum_fare |-> minimum_fare,
     maximum_fare |-> maximum_fare, night_rate_multiplier |-> night_rate_multiplier,
     peak_hour_multiplier |-> peak_hour_multiplier,
     long_distance_discount |-> long_distance_discount]

ConcurrentIdle ==
    /\ cReq = [c \in Clients |-> IdleRequest]
    /\ cSessions = <<>>
    /\ cStarted = 0
    /\ gazetteer = common_locations
    /\ pricing = PricingParameters

\* a request goes to the first client that is free
FreeClient(c) ==
    /\ cReq[c].pc = "idle"
    /\ \A d \in Clients : d < c => cReq[d].pc # "idle"

\* the handler of client c has run on from the replies in req to step, its
\* next await, return or raise; a statement it sends occupies its session
\* when the session is open and free
Advance(c, req, sessions, step) ==
    LET usable == /\ req.db \in DOMAIN sessions
                  /\ sessions[req.db].state = "open"
                  /\ sessions[req.db].busy = 0
    IN  /\ cReq' = [cReq EXCEPT ![c] =
                        [req EXCEPT !.pc = IF step.next \in {"store", "router"}
                                           THEN "await_" \o step.next
                                           ELSE step.next,
                                    !.result = step.value]]
        /\ cSessions' = IF step.next = "store" /\ usable
                        THEN [sessions EXCEPT ![req.db].busy = c]
                        ELSE sessions

\* a request that takes a session from get_db: the session is made, then the
\* handler starts
BeginWithSession(c, kind, input, step) ==
    /\ FreeClient(c)
    /\ cStarted < MaxRequests
    /\ cStarted' = cStarted + 1
    /\ LET session  == AsyncSessionLocal(cSessions)
           sessions == IF session \in DOMAIN cSessions
                       THEN cSessions
                       ELSE Append(cSessions, OpenSession)
       IN  Advance(c, [IdleRequest EXCEPT !.kind = kind, !.input = input,
                                          !.db = session], sessions, step)
    /\ UNCHANGED <<nonConcurrentVars, gazetteer, pricing>>

BeginResolve(c, place_name) ==
    BeginWithSession(c, "resolve", place_name,
                     resolve_place_name(place_name, store, <<>>))

BeginSearch(c, query, limit) ==
    BeginWithSession(c, "search", [query |-> query, limit |-> limit],
                     search_locations(query, limit, store, <<>>))

BeginPlan(c, request) ==
    BeginWithSession(c, "plan", request,
                     plan_route_with_taxis(request, taxis, <<>>, <<>>))

BeginNearby(c, request) ==
    BeginWithSession(c, "nearby", request, get_nearby_taxis(request, taxis, <<>>))

\* a variant of the fare call that raises the base fare for later calls
BeginFareSurge(c, args) ==
    /\ FreeClient(c)
    /\ cStarted < MaxRequests
    /\ cStarted' = cStarted + 1
    /\ Advance(c, [IdleRequest EXCEPT !.kind = "fare", !.input = args], cSessions,
               calculate_fare_endpoint(args))
    /\ pricing' = [pricing EXCEPT !.base_fare = @ + 1]
    /\ UNCHANGED <<nonConcurrentVars, gazetteer>>

\* calculate_fare takes no session
BeginFare(c, args) ==
    /\ FreeClient(c)
    /\ cStarted < MaxRequests
    /\ cStarted' = cStarted + 1
    /\ Advance(c, [IdleRequest EXCEPT !.kind = "fare", !.input = args], cSessions,
               calculate_fare_endpoint(args))
    /\ UNCHANGED <<nonConcurrentVars, gazetteer, pricing>>

\* estimate_fare_range takes no session
BeginEstimate(c, args) ==
    /\ FreeClient(c)
    /\ cStarted < MaxRequests
    /\ cStarted' = cStarted + 1
    /\ Advance(c, [IdleRequest EXCEPT !.kind = "estimate", !.input = args], cSessions,
               estimate_fare_range_endpoint(args))
    /\ UNCHANGED <<nonConcurrentVars, gazetteer, pricing>>

\* the store answers the statement of client c (ok) or fails (~ok); the
\* statement also fails when the session of the client is closed or runs the
\* statement of another client
StoreAnswers(c, ok) ==
    /\ cReq[c].pc = "await_store"
    /\ LET req      == cReq[c]
           mine     == /\ cSessions[req.db].state = "open"
                       /\ cSessions[req.db].busy = c
           sessions == IF cSessions[req.db].busy = c
                       THEN [cSessions EXCEPT ![req.db].busy = 0]
                       ELSE cSessions
           resumed  == [req EXCEPT !.oks = Append(@, ok /\ mine),
                                   !.answers = Append(@, ok)]
       IN  Advance(c, resumed, sessions, Resume(resumed, store, taxis))
    /\ UNCHANGED <<nonConcurrentVars, cStarted, gazetteer, pricing>>

\* the exchange of client c with the routing service ends
RouterAnswers(c, http) ==
    /\ cReq[c].pc = "await_router"
    /\ Advance(c, [cReq[c] EXCEPT !.http = <<http>>], cSessions,
               plan_route_with_taxis(cReq[c].input, taxis, <<http>>, cReq[c].oks))
    /\ UNCHANGED <<nonConcurrentVars, cStarted, gazetteer, pricing>>

\* get_db goes on after the yield: the next call on the session of client c
SessionStep(c) ==
    /\ cReq[c].pc \in {"returned", "raised"}
    /\ cReq[c].db # 0
    /\ cReq[c].exit < Len(get_db(cReq[c].pc = "raised"))
    /\ LET call == get_db(cReq[c].pc = "raised")[cReq[c].exit + 1]
       IN  cSessions' = [cSessions EXCEPT
                            ![cReq[c].db].events = Append(@, call),
                            ![cReq[c].db].state = IF call = "close" THEN "closed" ELSE @]
    /\ cReq' = [cReq EXCEPT ![c].exit = @ + 1]
    /\ UNCHANGED <<nonConcurrentVars, cStarted, gazetteer, pricing>>

\* get_db is through (or there was no session): the response goes out, or
\* the exception goes on to the framework
Finish(c) ==
    /\ cReq[c].pc \in {"returned", "raised"}
    /\ cReq[c].db # 0 => cReq[c].exit = Len(get_db(cReq[c].pc = "raised"))
    /\ cReq' = [cReq EXCEPT ![c].pc = "finished",
                            ![c].outcome = IF cReq[c].pc = "raised"
                                           THEN "exception" ELSE "response"]
    /\ UNCHANGED <<nonConcurrentVars, cSessions, cStarted, gazetteer, pricing>>

\* the client is free for its next request, and nothing refers to the
\* session of the request any more
Forget(c) ==
    /\ cReq[c].pc = "finished"
    /\ cReq' = [cReq EXCEPT ![c] = IdleRequest]
    /\ cSessions' = IF cReq[c].db \in DOMAIN cSessions
                    THEN [cSessions EXCEPT ![cReq[c].db].events = <<>>]
                    ELSE cSessions
    /\ UNCHANGED <<nonConcurrentVars, cStarted, gazetteer, pricing>>

\* one request at a time is served, against a store fixed at the start
LocationInit ==
    /\ store \in Stores
    /\ ResolveInit
    /\ SearchInit
    /\ FareInit
    /\ taxis = <<>>
    /\ PlanIdle
    /\ NormalizeIdle
    /\ MatchIdle
    /\ NearbyIdle
    /\ DirectionsIdle
    /\ EstimateIdle
    /\ routes = <<>>
    /\ PopularIdle
    /\ ConcurrentIdle

LocationNext ==
    \/ \E place_name \in PlaceNames : ResolveCall(place_name)
    \/ \E ok \in BOOLEAN : FindReply(ok)
    \/ \E ok \in BOOLEAN : ListReply(ok)
    \/ ResolveReturn
    \/ \E query \in PlaceNames, limit \in Limits : SearchCall(query, limit)
    \/ \E ok \in BOOLEAN : SearchReply(ok)
    \/ SearchReturn

SpecResolve == LocationInit /\ [][LocationNext]_vars

\* calculate_fare is called again and again
FareSpecInit ==
    /\ store = <<>>
    /\ ResolveInit
    /\ SearchInit
    /\ FareInit
    /\ taxis = <<>>
    /\ PlanIdle
    /\ NormalizeIdle
    /\ MatchIdle
    /\ NearbyIdle
    /\ DirectionsIdle
    /\ EstimateIdle
    /\ routes = <<>>
    /\ PopularIdle
    /\ ConcurrentIdle

FareNext ==
    \E distance_meters \in Distances, time_seconds \in Times,
       is_night \in BOOLEAN, is_peak_hour \in BOOLEAN :
        FareCall(distance_meters, time_seconds, is_night, is_peak_hour)

SpecFare == FareSpecInit /\ [][FareNext]_vars

\* plan requests are served one at a time, against a taxis table fixed at
\* the start
PlanInit ==
    /\ store = <<>>
    /\ ResolveInit
    /\ SearchInit
    /\ FareInit
    /\ taxis \in TaxiTables
    /\ PlanIdle
    /\ NormalizeIdle
    /\ MatchIdle
    /\ NearbyIdle
    /\ DirectionsIdle
    /\ EstimateIdle
    /\ routes = <<>>
    /\ PopularIdle
    /\ ConcurrentIdle

PlanNext ==
    \/ \E request \in PlanRequests : PlanCall(request)
    \/ \E http \in HttpOutcomes : RouterReply(http)
    \/ \E ok \in BOOLEAN : TaxiReply(ok)
    \/ PlanReturn

SpecPlan == PlanInit /\ [][PlanNext]_vars

\* the normalizer is applied to one text after another
NormalizeInit ==
    /\ store = <<>>
    /\ ResolveInit
    /\ SearchInit
    /\ FareInit
    /\ taxis = <<>>
    /\ PlanIdle
    /\ NormalizeIdle
    /\ MatchIdle
    /\ NearbyIdle
    /\ DirectionsIdle
    /\ EstimateIdle
    /\ routes = <<>>
    /\ PopularIdle
    /\ ConcurrentIdle

NormalizeNext ==
    \/ \E place_name \in Texts : NormalizeCall(place_name)
    \/ NormalizeAgain
    \/ NormalizeReturn

SpecNormalize == NormalizeInit /\ [][NormalizeNext]_vars

\* the matcher is called with one word and candidate list after another
MatchInit ==
    /\ store = <<>>
    /\ ResolveInit
    /\ SearchInit
    /\ FareInit
    /\ taxis = <<>>
    /\ PlanIdle
    /\ NormalizeIdle
    /\ MatchIdle
    /\ NearbyIdle
    /\ DirectionsIdle
    /\ EstimateIdle
    /\ routes = <<>>
    /\ PopularIdle
    /\ ConcurrentIdle

MatchNext ==
    \E word \in Words, possibilities \in CandidateLists : MatchCall(word, possibilities)

SpecMatch == MatchInit /\ [][MatchNext]_vars

\* nearby-taxis requests are served one at a time, against a taxis table
\* fixed at the start
NearbyInit ==
    /\ store = <<>>
    /\ ResolveInit
    /\ SearchInit
    /\ FareInit
    /\ taxis \in TaxiTables
    /\ PlanIdle
    /\ NormalizeIdle
    /\ MatchIdle
    /\ NearbyIdle
    /\ DirectionsIdle
    /\ EstimateIdle
    /\ routes = <<>>
    /\ PopularIdle
    /\ ConcurrentIdle

NearbyNext ==
    \/ \E request \in NearbyRequests : NearbyCall(request)
    \/ \E ok \in BOOLEAN : NearbyReply(ok)
    \/ NearbyReturn

SpecNearby == NearbyInit /\ [][NearbyNext]_vars

\* directions requests are served one at a time
DirectionsInit ==
    /\ store = <<>>
    /\ ResolveInit
    /\ SearchInit
    /\ FareInit
    /\ taxis = <<>>
    /\ PlanIdle
    /\ NormalizeIdle
    /\ MatchIdle
    /\ NearbyIdle
    /\ DirectionsIdle
    /\ EstimateIdle
    /\ routes = <<>>
    /\ PopularIdle
    /\ ConcurrentIdle

DirectionsNext ==
    \/ \E request \in DirectionsRequests : DirectionsCall(request)
    \/ RouterWait
    \/ \E http \in HttpOutcomes : DirectionsReply(http)
    \/ DirectionsReturn

SpecDirections == DirectionsInit /\ [][DirectionsNext]_vars

\* the event loop keeps running the handler and the timer of the exchange
SpecDirectionsFair == SpecDirections /\ WF_vars(DirectionsNext)

\* estimate_fare_range is called again and again
EstimateInit ==
    /\ store = <<>>
    /\ ResolveInit
    /\ SearchInit
    /\ FareInit
    /\ taxis = <<>>
    /\ PlanIdle
    /\ NormalizeIdle
    /\ MatchIdle
    /\ NearbyIdle
    /\ DirectionsIdle
    /\ EstimateIdle
    /\ routes = <<>>
    /\ PopularIdle
    /\ ConcurrentIdle

EstimateNext ==
    \E distance_meters \in EstimateDistances, time_seconds \in Times :
        EstimateCall(distance_meters, time_seconds)

SpecEstimate == EstimateInit /\ [][EstimateNext]_vars

\* popular-route requests are served one at a time, against a routes table
\* fixed at the start
PopularInit ==
    /\ store = <<>>
    /\ ResolveInit
    /\ SearchInit
    /\ FareInit
    /\ taxis = <<>>
    /\ PlanIdle
    /\ NormalizeIdle
    /\ MatchIdle
    /\ NearbyIdle
    /\ DirectionsIdle
    /\ EstimateIdle
    /\ routes \in RouteTables
    /\ PopularIdle
    /\ ConcurrentIdle

PopularNext ==
    \/ \E request \in PopularRequests : PopularCall(request)
    \/ \E ok \in BOOLEAN, accepted \in BOOLEAN : StoreReply(ok, accepted)
    \/ \E http \in HttpOutcomes : QuickRouterReply(http)
    \/ PopularReturn

SpecPopular == PopularInit /\ [][PopularNext]_vars

\* what the concurrent clients ask for
ConcurrentNames ==
    {<<"B","o","l">>, <<"z","z","z","z","n","o","t","a","p","l","a","c","e">>}

ConcurrentHttp ==
    {h \in HttpOutcomes :
        \/ h.kind = "timeout"
        \/ h.kind = "response" /\ h.status = 200 /\ h.body.msg # <<>>}

\* two clients send requests at the same time, against tables fixed at the
\* start
ConcurrentInit ==
    /\ store = <<LocationPool[2]>>
    /\ ResolveInit
    /\ SearchInit
    /\ FareInit
    /\ taxis = <<TaxiPool[1], TaxiPool[3]>>
    /\ PlanIdle
    /\ NormalizeIdle
    /\ MatchIdle
    /\ NearbyIdle
    /\ DirectionsIdle
    /\ EstimateIdle
    /\ routes = <<>>
    /\ PopularIdle
    /\ ConcurrentIdle

ConcurrentNext ==
    \/ \E c \in Clients, place_name \in ConcurrentNames : BeginResolve(c, place_name)
    \/ \E c \in Clients : BeginSearch(c, <<"b","o","l">>, 2)
    \/ \E c \in Clients : BeginPlan(c, [origin |-> <<89890, 387904>>,
                                         destination |-> <<90304, 387653>>])
    \/ \E c \in Clients, lat \in {0, 89890} :
            BeginNearby(c, [lat |-> lat, lng |-> 387904, radius_km |-> 2])
    \/ \E c \in Clients : BeginFare(c, FareArgs(8500, 900, TRUE, FALSE))
    \/ \E c \in Clients : BeginEstimate(c, EstimateArgs(8500, 900))
    \/ \E c \in Clients, ok \in BOOLEAN : StoreAnswers(c, ok)
    \/ \E c \in Clients, http \in ConcurrentHttp : RouterAnswers(c, http)
    \/ \E c \in Clients : SessionStep(c)
    \/ \E c \in Clients : Finish(c)
    \/ \E c \in Clients : Forget(c)

SpecConcurrent == ConcurrentInit /\ [][ConcurrentNext]_vars

(***************************************************************************)
(* Properties of the resolver.                                             *)
(***************************************************************************)
\* the normalized text of the request in progress
rKey == Normalize(rInput)

\* whether the i-th store query of the request failed (FALSE while unanswered)
rFailed(i) == i <= Len(rFaults) /\ rFaults[i]

\* what each tier finds for the request, a failed query finding nothing
Tier1Hit == InGazetteer(rKey)

Tier2Hit == find_in_database(rKey, store, ~rFailed(1))

Tier3Hit == get_close_matches(rKey, GazetteerKeys, Cutoff)

Tier4Hit == fuzzy_match_database(rKey, store, ~rFailed(2))

C2_ExactMatchNoStore ==
    /\ (rPc # "idle" /\ InGazetteer(rKey)) =>
           /\ rPc = "done"
           /\ rResult = Resolved("EXACT_GAZETTEER", GazetteerEntry(rKey))
           /\ rCalls = <<>>
           /\ rFaults = <<>>
    /\ (rPc # "idle" /\ rInput = <<"A","Y","E","R","T","E","N","A">>) =>
           /\ rResult.name = <<"A","y","e","r","t","e","n","a">>
           /\ rResult.lat = 9030450 /\ rResult.lng = 38765300
           /\ rCalls = <<>>
    /\ (rPc # "idle" /\ rInput = <<"M","e","x","i","c","o">>) =>
           /\ rResult.name = <<"M","e","x","i","c","o">>
           /\ rResult.lat = 8989022 /\ rResult.lng = 38790360
           /\ rCalls = <<>>
    /\ (rPc # "idle" /\ rInput = <<" ","b","o","l","e"," ">>) =>
           /\ rResult.name = <<"B","o","l","e">>
           /\ rCalls = <<>>

\* an upper-case input resolved from the gazetteer while the store holds rows
C2_Witness ==
    /\ rPc = "done"
    /\ rInput = <<"A","Y","E","R","T","E","N","A">>
    /\ rResult.tier = "EXACT_GAZETTEER"
    /\ Len(store) = MaxStoreRows

\* what the gazetteer tiers alone yield for a key
GazetteerOnly(k) ==
    IF InGazetteer(k) THEN Resolved("EXACT_GAZETTEER", GazetteerEntry(k))
    ELSE LET m == get_close_matches(k, GazetteerKeys, Cutoff)
         IN  IF m # <<>> THEN Resolved("FUZZY_GAZETTEER", GazetteerEntry(m[1]))
             ELSE Unresolved

\* C3: a failed store query counts as no match at its tier and never ends the
\* operation: after a failed find query the request still goes on to the fuzzy
\* tiers; when every store query fails, resolve returns what the gazetteer
\* tiers alone yield and search returns the gazetteer matches it retains.
C3_StoreFaultsFallThrough ==
    /\ (rPc = "done" /\ \A i \in DOMAIN rFaults : rFaults[i]) =>
           /\ rResult = GazetteerOnly(rKey)
           /\ (~InGazetteer(rKey) /\ rResult = Unresolved) => rCalls = <<"find", "list">>
    /\ (rPc = "done" /\ rFailed(1)) => rResult.tier # "STORE_EXACT"
    /\ (rPc = "done" /\ rFailed(2)) => rResult.tier # "FUZZY_STORE"
    /\ (sPc = "done" /\ sFault) =>
           sResults = UniqueResults(SearchGazetteer(Normalize(sQuery)), <<>>, sLimit)

\* the find query failed on a store holding a matching row, and the request
\* went on to the gazetteer's fuzzy match
C3_Witness ==
    /\ rPc = "done"
    /\ rFaults = <<TRUE>>
    /\ rResult.tier = "FUZZY_GAZETTEER"
    /\ \E i \in DOMAIN store : FindWhere(store[i], rKey)

\* whether a store name contains the key: as a substring without regard to
\* case, or with the key's spaces standing for any run of characters
NameContains(name, k) ==
    \/ IsSubstring(k, LowerStr(name))
    \/ ILike(name, <<"%">> \o SpacesToPercent(k) \o <<"%">>)

\* the active rows of the store whose name contains the key
ContainingRows(k) ==
    SelectSeq(store, LAMBDA row : row.is_active /\ NameContains(row.name, k))

\* C4: when the gazetteer has no exact key for the normalized input and one or
\* more active store locations have a name containing it, resolve returns one
\* of those locations at the store tier, however many match (the find query
\* answering without an I/O error).
C4_StoreHitReturned ==
    (/\ rPc = "done"
     /\ ~InGazetteer(rKey)
     /\ rFaults # <<>> /\ ~rFaults[1]
     /\ ContainingRows(rKey) # <<>>) =>
        \E i \in DOMAIN ContainingRows(rKey) :
            rResult = Resolved("STORE_EXACT", ContainingRows(rKey)[i])

\* C13: an input that normalizes to the empty text never matches anything:
\* whatever the store holds, resolve returns Unresolved and search returns
\* no entry, neither from the gazetteer nor from the store.
C13_EmptyNeverMatches ==
    /\ (rPc = "done" /\ rKey = <<>>) => rResult = Unresolved
    /\ (sPc = "done" /\ Normalize(sQuery) = <<>>) => sResults = <<>>

\* whether the similarity of a matched text to the key of the request
\* reaches 0.6
SimilarToKey(matched) ==
    10 * Ratio(matched, rKey)[1] >= 6 * Ratio(matched, rKey)[2]

ValidPoint(point) ==
    /\ point.name # <<>>
    /\ point.lat >= -90000000 /\ point.lat <= 90000000
    /\ point.lng >= -180000000 /\ point.lng <= 180000000

\* C15: every point resolve or search returns has a non-empty name, a
\* latitude in [-90, 90] and a longitude in [-180, 180], whatever the store
\* holds.
C15_ReturnedPointsValid ==
    /\ (rPc = "done" /\ rResult # Unresolved) => ValidPoint(rResult)
    /\ sPc = "done" => \A i \in DOMAIN sResults : ValidPoint(sResults[i])

\* whether s is t with some elements left out, the order kept
RECURSIVE IsSubsequence(_, _)
IsSubsequence(s, t) ==
    IF s = <<>> THEN TRUE
    ELSE IF t = <<>> THEN FALSE
    ELSE IF s[1] = t[1] THEN IsSubsequence(Tail(s), Tail(t))
    ELSE IsSubsequence(s, Tail(t))

\* the gazetteer matches of the search in progress, in table order
sGazetteer == SearchGazetteer(Normalize(sQuery))

\* the names of a list of results
Names(results) == {results[i].name : i \in DOMAIN results}

\* C18: search returns the retained gazetteer matches first, in the order of
\* the gazetteer table, and the retained store matches after them, in the
\* order the store returned them: no store match precedes a gazetteer match.
C18_GazetteerFirst ==
    sPc = "done" =>
        \E k \in 0 .. Len(sResults) :
            /\ IsSubsequence(SubSeq(sResults, 1, k), sGazetteer)
            /\ IsSubsequence(SubSeq(sResults, k + 1, Len(sResults)), sDbResults)
            /\ \A i \in k + 1 .. Len(sResults) : sResults[i].name \notin Names(sGazetteer)
            /\ k < Len(sResults) => Names(sGazetteer) \subseteq Names(SubSeq(sResults, 1, k))

\* a search for "bole" that returns gazetteer entries followed by the store's
\* Bole Road
C18_Witness ==
    /\ sPc = "done"
    /\ sQuery = <<" ","b","o","l","e"," ">>
    /\ sGazetteer # <<>>
    /\ Len(sResults) > Len(sGazetteer)
    /\ sResults[Len(sResults)].name = <<"B","o","l","e"," ","R","o","a","d">>

\* C19: search returns no two results with the same name, the first
\* occurrence of a name in gazetteer-then-store order being the one kept,
\* and at most limit results; the store query returns at most limit rows.
C19_UniqueAndLimited ==
    sPc = "done" =>
        /\ \A i, j \in DOMAIN sResults : i # j => sResults[i].name # sResults[j].name
        /\ Len(sResults) <= sLimit
        /\ Len(sDbResults) <= sLimit
        /\ LET all == sGazetteer \o sDbResults
           IN  \A i \in DOMAIN sResults :
                   \E j \in DOMAIN all :
                       /\ all[j] = sResults[i]
                       /\ \A h \in 1 .. j - 1 : all[h].name # sResults[i].name

\* the store's row named Bole was returned by the query and dropped for the
\* gazetteer's entry of the same name
C19_Witness ==
    /\ sPc = "done"
    /\ \E i \in DOMAIN sDbResults :
           /\ sDbResults[i].name = <<"B","o","l","e">>
           /\ sDbResults[i] \notin {sResults[j] : j \in DOMAIN sResults}
    /\ \E j \in DOMAIN sResults : sResults[j].name = <<"B","o","l","e">>
    /\ Len(sResults) < sLimit

(***************************************************************************)
(* Properties of the plan handler.                                         *)
(***************************************************************************)
\* whether the nearby-taxi lookup of the finished request failed: the deltas
\* could not be computed, or the query on the taxis table raised
LookupFailed ==
    \/ pRequest.origin[1] = 0
    \/ pFaults # <<>> /\ pFaults[1]

\* whether get_route reported success for the request
RouterSucceeded == pRoute # <<>> /\ pRoute[1].success

\* C5: a failure of the nearby-vehicle lookup (store I/O error, or the
\* bounding box failing at origin latitude 0) does not fail the plan: it
\* succeeds with the route, the fare and an empty nearby-vehicle list.
C5_LookupFailureTolerated ==
    (pPc = "done" /\ RouterSucceeded /\ LookupFailed) =>
        /\ pResponse[1].status_code = 200
        /\ pResponse[1].body # <<>>
        /\ pResponse[1].body[1].route.distance = pRoute[1].distance
        /\ pResponse[1].body[1].fare = pFare[1]
        /\ pResponse[1].body[1].nearby_taxis = <<>>

\* C6: when the router reports failure, the plan fails with the
\* route-unavailable response (400) carrying the router's message; no fare is
\* calculated and the taxis table is not queried for the request; the router
\* is the first collaborator called, before any query on the taxis table.
C6_RouterFailurePropagates ==
    /\ (pPc = "done" /\ pRoute # <<>> /\ ~pRoute[1].success) =>
           /\ pResponse = <<[status_code |-> 400,
                             detail |-> <<pRoute[1].message>>,
                             body |-> <<>>]>>
           /\ pFare = <<>>
           /\ pCalls = <<"router">>
           /\ pFaults = <<>>
    /\ \A i \in DOMAIN pCalls : pCalls[i] = "taxis" => i > 1 /\ pCalls[1] = "router"

\* the router answered 404 and the request ended as route-unavailable
C6_Witness ==
    /\ pPc = "done"
    /\ pRoute # <<>>
    /\ pRoute[1].message = Msg("No route found between specified locations", 0)
    /\ pResponse[1].status_code = 400
    /\ Len(taxis) = MaxTaxis

\* C7: plan resolves the origin text and the destination text through the
\* resolver before it calls the router: a router call is the third call of
\* the request, after two resolver calls.
C7_ResolvedBeforeRouter ==
    \A i \in DOMAIN pCalls :
        pCalls[i] = "router" =>
            /\ i = 3
            /\ pCalls[1] = "resolver"
            /\ pCalls[2] = "resolver"

\* whether a position lies in the box of 2 km around the origin: within
\* 2/111 degree of latitude and 2/(111*|lat|) degree of longitude
InPlanBox(position, origin) ==
    /\ Abs(position[1] - origin[1]) * KmPerDegree <= PlanRadiusKm * 10000
    /\ Abs(position[2] - origin[2]) * KmPerDegree * Abs(origin[1])
           <= PlanRadiusKm * 10000 * 10000

\* the AVAILABLE taxis of the table inside the box around the origin
AvailableInBox(origin) ==
    SelectSeq(taxis, LAMBDA taxi :
        /\ taxi.status = "AVAILABLE"
        /\ taxi.position # <<>>
        /\ InPlanBox(taxi.position[1], origin))

\* C8: on router success plan returns the router's distance, time and path,
\* the fare calculate_fare(distance, time, FALSE, FALSE), the AVAILABLE taxis
\* inside the 2 km box around the origin, and the origin and destination it
\* was given; 8500 m and 900 s give a total fare of 135.
C8_PlanAssembled ==
    (pPc = "done" /\ RouterSucceeded) =>
        /\ pResponse[1].status_code = 200
        /\ pResponse[1].body # <<>>
        /\ LET body == pResponse[1].body[1]
           IN  /\ body.route.distance = pRoute[1].distance
               /\ body.route.time = pRoute[1].time
               /\ body.route.coordinates = pRoute[1].coordinates
               /\ body.fare = calculate_fare(pRoute[1].distance, pRoute[1].time,
                                             FALSE, FALSE)
               /\ Len(body.nearby_taxis) = Len(AvailableInBox(pRequest.origin))
               /\ \A i \in DOMAIN body.nearby_taxis :
                      body.nearby_taxis[i] = to_dict(AvailableInBox(pRequest.origin)[i])
               /\ body.origin = pRequest.origin
               /\ body.destination = pRequest.destination
               /\ (pRoute[1].distance = 8500 /\ pRoute[1].time = 900) =>
                      body.fare.total_fare = 135

\* whether a position lies within radius_km / 111 degree of latitude and
\* radius_km / (111 * |lat|) degree of longitude of the centre of the request
InNearbyBox(position) ==
    /\ Abs(position[1] - tRequest.lat) * KmPerDegree <= tRequest.radius_km * 10000
    /\ Abs(position[2] - tRequest.lng) * KmPerDegree * Abs(tRequest.lat)
           <= tRequest.radius_km * 10000 * 10000

\* C20: findAvailable(center, r) returns exactly the vehicles of the table
\* with status AVAILABLE, a latitude within r/111 of the centre's and a
\* longitude within r/(111*|center.latitude|) of the centre's: every vehicle
\* returned satisfies the three conditions, none that satisfies them is left
\* out, and no BUSY, OFFLINE or MAINTENANCE vehicle is returned.
C20_ExactlyAvailableInBox ==
    (tPc = "done" /\ tResponse[1].status_code = 200) =>
        LET returned == tResponse[1].body[1]
        IN  /\ \A i \in DOMAIN returned :
                   /\ returned[i].status = "AVAILABLE"
                   /\ returned[i].current_location # <<>>
                   /\ InNearbyBox(returned[i].current_location[1])
                   /\ \E j \in DOMAIN taxis : returned[i] = to_dict(taxis[j])
            /\ \A j \in DOMAIN taxis :
                   (/\ taxis[j].status = "AVAILABLE"
                    /\ taxis[j].position # <<>>
                    /\ InNearbyBox(taxis[j].position[1])) =>
                       \E i \in DOMAIN returned : returned[i] = to_dict(taxis[j])

\* a table with an AVAILABLE taxi in the box, an OFFLINE one in the box and
\* an AVAILABLE one outside it: only the first is returned
C20_Witness ==
    /\ tPc = "done"
    /\ tRequest = [lat |-> 89890, lng |-> 387904, radius_km |-> 5]
    /\ tResponse[1].status_code = 200
    /\ {taxis[j].id : j \in DOMAIN taxis} = {"t1", "t2", "t6"}
    /\ {tResponse[1].body[1][i].id : i \in DOMAIN tResponse[1].body[1]} = {"t1"}

(***************************************************************************)
(* Properties of the fare calculator.                                      *)
(***************************************************************************)
\* whether the fare of a call was clamped: its unclamped fare lies outside
\* [minimum_fare, maximum_fare]
Clamped(args) ==
    LET f == UnclampedFare(args.distance_meters, args.time_seconds,
                           args.is_night, args.is_peak_hour)
    IN  FracLess(f, <<minimum_fare, 1>>) \/ FracLess(<<maximum_fare, 1>>, f)

\* the latest two calls have the same time and flags, neither fare was
\* clamped, and the earlier distance is at most the later one
ComparablePair ==
    /\ fareCalls = 2
    /\ prevFareIn.time_seconds = fareIn.time_seconds
    /\ prevFareIn.is_night = fareIn.is_night
    /\ prevFareIn.is_peak_hour = fareIn.is_peak_hour
    /\ prevFareIn.distance_meters <= fareIn.distance_meters
    /\ ~Clamped(prevFareIn)
    /\ ~Clamped(fareIn)

\* C9 as stated: for fixed time and flags, total_fare is non-decreasing in
\* distance over the distances whose unclamped fare lies in [30, 500],
\* including pairs on either side of 20 km.
C9_MonotoneInDistance ==
    ComparablePair => prevFareOut.total_fare <= fareOut.total_fare

\* whether two distances lie on the same side of the 20 km threshold
SameSide(d1, d2) == (d1 <= LongDistanceKm * 1000) <=> (d2 <= LongDistanceKm * 1000)

\* C9, amended: for fixed time and flags and d1 <= d2 both at most 20 km or
\* both above 20 km, with neither fare clamped, total_fare(d1) <= total_fare(d2).
C9_MonotoneSameSide ==
    (ComparablePair /\ SameSide(prevFareIn.distance_meters, fareIn.distance_meters)) =>
        prevFareOut.total_fare <= fareOut.total_fare

\* 19.5 km then exactly 20 km, neither discounted, the fare going up
C9_Witness ==
    /\ ComparablePair
    /\ prevFareIn.distance_meters = 19500
    /\ fareIn.distance_meters = 20000
    /\ ~fareOut.long_distance_discount
    /\ prevFareOut.total_fare < fareOut.total_fare

\* C10: for every distance, time and flags, total_fare is a multiple of 5
\* within [30, 500]; calculate_fare(0, 0, FALSE, FALSE) gives exactly 30 and
\* a large distance (45 km or more) gives exactly 500.
C10_FareBounds ==
    fareCalls >= 1 =>
        /\ fareOut.total_fare % 5 = 0
        /\ fareOut.total_fare >= 30
        /\ fareOut.total_fare <= 500
        /\ fareIn = FareArgs(0, 0, FALSE, FALSE) => fareOut.total_fare = 30
        /\ fareIn.distance_meters >= 45000 => fareOut.total_fare = 500

\* the minimum fare for (0, 0) followed by the maximum fare for 50 km
C10_Witness ==
    /\ fareCalls = 2
    /\ prevFareIn = FareArgs(0, 0, FALSE, FALSE)
    /\ prevFareOut.total_fare = 30
    /\ fareIn.distance_meters = 50000
    /\ fareOut.total_fare = 500

\* the fare the formula gives before clamping, as numerator and denominator:
\* 25 + 12 d/1000 + 0.5 t/60 = (75000 + 36 d + 25 t) / 3000, times 9/10 when
\* d > 20000, times 13/10 at night, times 6/5 (1.2) at peak hour
FormulaNum(args) ==
    (75000 + 36 * args.distance_meters + 25 * args.time_seconds)
        * (IF args.distance_meters > 20000 THEN 9 ELSE 1)
        * (IF args.is_night THEN 13 ELSE 1)
        * (IF args.is_peak_hour THEN 6 ELSE 1)

FormulaDen(args) ==
    3000 * (IF args.distance_meters > 20000 THEN 10 ELSE 1)
         * (IF args.is_night THEN 10 ELSE 1)
         * (IF args.is_peak_hour THEN 5 ELSE 1)

\* C11: total_fare is 25 + km * 12 + min * 0.5, times 0.9 iff the distance is
\* strictly above 20 km, times 1.3 at night and 1.2 at peak hour (both when
\* both are set), clamped to [30, 500] and rounded to the nearest multiple of
\* 5; the long-distance flag of the result is true exactly when the discount
\* was applied, and exactly 20 km gets no discount.
C11_FareFormula ==
    fareCalls >= 1 =>
        LET num     == FormulaNum(fareIn)
            den     == FormulaDen(fareIn)
            clamped == IF num < 30 * den THEN 30 * den
                       ELSE IF num > 500 * den THEN 500 * den
                       ELSE num
        IN  /\ fareOut.total_fare % 5 = 0
            /\ 2 * Abs(fareOut.total_fare * den - clamped) <= 5 * den
            /\ fareOut.long_distance_discount <=> fareIn.distance_meters > 20000
            /\ fareOut.night_rate = fareIn.is_night
            /\ fareOut.peak_hour = fareIn.is_peak_hour
            /\ fareIn = FareArgs(20000, 0, FALSE, FALSE) => fareOut.total_fare = 265
            /\ fareIn = FareArgs(20001, 0, FALSE, FALSE) => fareOut.total_fare = 240

\* a discounted night and peak-hour fare that no clamp touches
C11_Witness ==
    /\ fareCalls >= 1
    /\ fareIn = FareArgs(20001, 0, TRUE, TRUE)
    /\ fareOut.long_distance_discount
    /\ fareOut.total_fare = 370

(***************************************************************************)
(* Properties of the normalizer.                                           *)
(***************************************************************************)
\* C12: normalize is idempotent: normalize(normalize(x)) = normalize(x) for
\* every text x, among them "a - b" and "abc !".
C12_NormalizeIdempotent ==
    nPc = "twice" => nAgain = nOutput

(***************************************************************************)
(* Properties of the approximate matcher.                                  *)
(***************************************************************************)
\* the similarity of the i-th candidate to the word: 2 * matches over the
\* sum of the two lengths
Score(i) == Ratio(mPossibilities[i], mWord)

\* whether a score reaches 0.6
AtLeastCutoff(score) == 10 * score[1] >= 6 * score[2]

\* the candidates that attain the greatest score
BestIndices ==
    {i \in DOMAIN mPossibilities :
        \A j \in DOMAIN mPossibilities :
            Score(j)[1] * Score(i)[2] <= Score(i)[1] * Score(j)[2]}

\* C16: the matcher returns a candidate if and only if the greatest
\* similarity over the candidates is at least 0.6, a score of exactly 0.6
\* being accepted and any score below it rejected; the candidate returned
\* attains the greatest similarity.  "ayertna" matches the gazetteer key
\* "ayertena" and "xyz" matches nothing.
C16_MatcherCutoff ==
    mCalls = 1 =>
        /\ mMatches # <<>> <=> \E i \in BestIndices : AtLeastCutoff(Score(i))
        /\ mMatches # <<>> =>
               /\ Len(mMatches) = 1
               /\ \E i \in BestIndices : mPossibilities[i] = mMatches[1]
        /\ (mWord = <<"b","o","l">> /\ mPossibilities = <<<<"b","o","l","x","x","x","x">>>>) =>
               mMatches = <<<<"b","o","l","x","x","x","x">>>>
        /\ (mWord = <<"b","o","l">> /\ mPossibilities = <<<<"b","o","l","x","x","x","x","x">>>>) =>
               mMatches = <<>>
        /\ (mWord = <<"a","y","e","r","t","n","a">> /\ mPossibilities = GazetteerKeys) =>
               mMatches = <<<<"a","y","e","r","t","e","n","a">>>>
        /\ (mWord = <<"x","y","z">> /\ mPossibilities = GazetteerKeys) =>
               mMatches = <<>>

\* the only candidate scores exactly 0.6 and is returned
C16_Witness ==
    /\ mCalls = 1
    /\ mWord = <<"b","o","l">>
    /\ mPossibilities = <<<<"b","o","l","x","x","x","x">>>>
    /\ Score(1) = <<6, 10>>
    /\ mMatches = <<<<"b","o","l","x","x","x","x">>>>

\* C17: when two or more candidates share the greatest similarity (at or
\* above the cutoff), the matcher returns the one that comes first in the
\* iteration order of the candidates.
C17_FirstTieWins ==
    (mCalls = 1 /\ mMatches # <<>>) =>
        mMatches[1] = mPossibilities[CHOOSE i \in BestIndices :
                                         \A j \in BestIndices : i <= j]

(***************************************************************************)
(* Properties of the routing client, seen through the directions handlers. *)
(***************************************************************************)
\* the fields of a RouteResponse
RouteFields == {"success", "distance", "time", "coordinates", "message", "instructions"}

\* get_route has returned in the request in progress
RouteReturned == dPc = "done" /\ dCalls # <<>>

\* C21: the call of the routing service never raises and never waits without
\* bound: however the HTTP exchange ends (status 200, another status, a
\* timeout once the 30 s wait has run out, a connection error, a body that
\* does not parse), get_route returns a RouteResponse, which the handler
\* turns into a 200 or a 400 and never a 500; a timeout gives the failure
\* "Request timed out" and a connection error the different failure
\* "Network error"; the wait never exceeds 30 s, and every call returns.
C21_RouterCallReturns ==
    /\ [](dWaited <= timeout)
    /\ [](RouteReturned =>
            /\ dRoute # <<>>
            /\ DOMAIN dRoute[1] = RouteFields
            /\ dRoute[1].success \in BOOLEAN
            /\ dResponse[1].status_code \in {200, 400}
            /\ dHttp[1].kind = "timeout" =>
                    /\ ~dRoute[1].success
                    /\ dRoute[1].message = Msg("Request timed out", 0)
                    /\ dWaited = timeout
            /\ dHttp[1].kind = "request_error" =>
                    /\ ~dRoute[1].success
                    /\ dRoute[1].message = Msg("Network error", 0)
            /\ dHttp[1].kind # "timeout" => dRoute[1].message # Msg("Request timed out", 0))
    /\ ((dPc = "await_router") ~> (dPc = "done"))

\* a call that timed out, and one that met a connection error, has returned
C21_Witness ==
    /\ RouteReturned
    /\ dHttp[1].kind = "timeout"
    /\ dWaited = timeout
    /\ dRoute[1].message = Msg("Request timed out", 0)

\* C22: every response of the routing service with a status other than 200
\* gives a failure (success = false) whose message the status decides: 401
\* authentication failure, 404 no route found, 422 invalid input, 429 rate
\* limited, 500 upstream server error, each a message of its own, and any
\* other status a generic message that names the status.
C22_StatusDecidesMessage ==
    (RouteReturned /\ dHttp[1].kind = "response" /\ dHttp[1].status # 200) =>
        LET status == dHttp[1].status
            known  == {401, 404, 422, 429, 500}
            text   == dRoute[1].message.text
        IN  /\ ~dRoute[1].success
            /\ status = 401 => text = "Authentication failed - check API key"
            /\ status = 404 => text = "No route found between specified locations"
            /\ status = 422 => text = "Invalid input parameters"
            /\ status = 429 => text = "Rate limit exceeded"
            /\ status = 500 => text = "Gebeta API server error"
            /\ status \in known => dRoute[1].message.status = 0
            /\ status \notin known =>
                    /\ text = "API error (status)"
                    /\ dRoute[1].message.status = status
            /\ \A other \in ErrorStatuses \ {status} :
                    parse_error_response(other).message # dRoute[1].message

\* a 404 of the routing service and a 503 have been reported
C22_Witness ==
    /\ RouteReturned
    /\ dHttp[1].kind = "response"
    /\ dHttp[1].status \in {404, 503}
    /\ ~dRoute[1].success
    /\ dResponse[1].status_code = 400

\* the exchange ended in a 200 whose body is a JSON object without the
\* fields totalDistance and timetaken
BodyLacksFields ==
    /\ dHttp[1].kind = "response" /\ dHttp[1].status = 200
    /\ dHttp[1].body.json
    /\ dHttp[1].body.totalDistance = <<>>
    /\ dHttp[1].body.timetaken = <<>>

\* C29: a routing outcome with success = false carries distance 0, time 0,
\* an empty path and no instructions; success = true comes only from a 200
\* whose body parses into a route (a JSON object whose distance and time,
\* where present, are numbers); a 200 body without the distance and time
\* fields is reported as success with distance 0 and time 0.
C29_FailureCarriesNothing ==
    RouteReturned =>
        /\ ~dRoute[1].success =>
                /\ dRoute[1].distance = 0
                /\ dRoute[1].time = 0
                /\ dRoute[1].coordinates = <<>>
                /\ dRoute[1].instructions = <<>>
        /\ dRoute[1].success =>
                /\ dHttp[1].kind = "response" /\ dHttp[1].status = 200
                /\ dHttp[1].body.json
                /\ \A field \in {dHttp[1].body.totalDistance, dHttp[1].body.timetaken} :
                        field = <<>> \/ field[1].num
        /\ BodyLacksFields =>
                /\ dRoute[1].success
                /\ dRoute[1].distance = 0
                /\ dRoute[1].time = 0

\* a 200 with an empty object was reported as a route of length 0
C29_Witness ==
    /\ RouteReturned
    /\ BodyLacksFields
    /\ dRoute[1].success
    /\ dRoute[1].distance = 0
    /\ dResponse[1].status_code = 200

(***************************************************************************)
(* Properties of the handlers that take coordinates.                       *)
(***************************************************************************)
\* every point of a list is in range
AllInRange(points) ==
    \A i \in DOMAIN points : validate_coordinates(points[i][1], points[i][2])

\* C23: coordinates outside latitude [-90, 90] or longitude [-180, 180] are
\* rejected before any I/O: a directions request (POST or GET), a plan
\* request and a nearby-taxis request that has called the routing service or
\* queried the store supplied only coordinates in range.
C23_InvalidRejectedBeforeIO ==
    /\ dCalls # <<>> =>
            AllInRange(<<dRequest.origin, dRequest.destination>> \o dRequest.waypoints)
    /\ pCalls # <<>> => AllInRange(<<pRequest.origin, pRequest.destination>>)
    /\ (tPc = "await_taxis" \/ tFaults # <<>>) =>
            validate_coordinates(tRequest.lat, tRequest.lng)

(***************************************************************************)
(* Properties of the fare estimate.                                        *)
(***************************************************************************)
\* C24: estimateFareRange(distance, time) returns as minimum the total fare
\* of calculateFare(distance, time, false, false), as maximum the total fare
\* of calculateFare(distance, time, true, true), and as average
\* (minimum + maximum) / 2.
C24_EstimateFromTwoFares ==
    eCalls = 1 =>
        LET plain == calculate_fare(eIn.distance_meters, eIn.time_seconds, FALSE, FALSE)
            dear  == calculate_fare(eIn.distance_meters, eIn.time_seconds, TRUE, TRUE)
        IN  /\ eOut.minimum = plain.total_fare
            /\ eOut.maximum = dear.total_fare
            /\ 2 * eOut.estimated_average[1] =
                    (eOut.minimum + eOut.maximum) * eOut.estimated_average[2]

\* an estimate whose two fares differ and whose average is no whole number:
\* 8.5 km in 15 minutes gives 135, 210 and 172.5
C24_Witness ==
    /\ eCalls = 1
    /\ eIn = EstimateArgs(8500, 900)
    /\ eOut.minimum = 135
    /\ eOut.maximum = 210
    /\ eOut.estimated_average = <<345, 2>>

\* C28: for non-negative distance and time, estimateFareRange gives
\* minimum <= average <= maximum: after clamping and rounding the fare at
\* night in the peak hour is never below the plain fare.
C28_EstimateOrdered ==
    eCalls = 1 =>
        /\ eOut.minimum <= eOut.maximum
        /\ ~FracLess(eOut.estimated_average, <<eOut.minimum, 1>>)
        /\ ~FracLess(<<eOut.maximum, 1>>, eOut.estimated_average)

\* an estimate with minimum < average < maximum
C28_Witness ==
    /\ eCalls = 1
    /\ eOut.minimum < eOut.maximum
    /\ FracLess(<<eOut.minimum, 1>>, eOut.estimated_average)
    /\ FracLess(eOut.estimated_average, <<eOut.maximum, 1>>)

(***************************************************************************)
(* Properties of the popular-route handlers.                               *)
(***************************************************************************)
\* the routes table has a row with the id asked about
InRoutesTable == RouteById(routes, qRequest.route_id) # <<>>

\* the static table has the id asked about
InStaticTable == qRequest.route_id \in DOMAIN POPULAR_ROUTES

\* the request consulted the collaborator
Consulted(collaborator) == \E i \in DOMAIN qCalls : qCalls[i] = collaborator

\* C30: a popular-route lookup by id (route by id, quick route) consults the
\* store first and the static table only when the store has no row with
\* the id; it answers 404 only when neither has the id; a store error gives
\* a 500 and no look at the static table; and a 404 or 400 raised in the
\* handler goes out as it is, never as a 500.
C30_StoreBeforeStaticTable ==
    /\ qCalls # <<>> => qCalls[1] = "store"
    /\ Consulted("static") <=>
            (qPc \in {"await_router", "done"} /\ qFaults = <<FALSE>> /\ ~InRoutesTable)
    /\ qPoints # <<>> =>
            IF InRoutesTable
            THEN LET route == RouteById(routes, qRequest.route_id)[1]
                 IN  qPoints = << <<route.origin_lat, route.origin_lng>>,
                                  <<route.destination_lat, route.destination_lng>> >>
            ELSE LET static_route == POPULAR_ROUTES[qRequest.route_id]
                 IN  qPoints = << <<static_route.origin.lat, static_route.origin.lng>>,
                                  <<static_route.destination.lat,
                                    static_route.destination.lng>> >>
    /\ qPc = "done" =>
            /\ qResponse[1].status_code = 404 <=>
                    (qFaults = <<FALSE>> /\ ~InRoutesTable /\ ~InStaticTable)
            /\ qFaults = <<TRUE>> =>
                    (qResponse[1].status_code = 500 /\ qCalls = <<"store">>)
            /\ Consulted("router") => qResponse[1].status_code \in {200, 400}
            /\ (qRequest.endpoint = "by_id" /\ qFaults = <<FALSE>> /\ ~InRoutesTable
                    /\ InStaticTable) =>
                    qResponse[1].body = <<POPULAR_ROUTES[qRequest.route_id]>>

\* a quick route for an id that both tables have was calculated between the
\* points of the store's row
C30_Witness ==
    /\ qPc = "done"
    /\ qRequest = [endpoint |-> "quick", route_id |-> "mexico_to_ayertena"]
    /\ InRoutesTable
    /\ InStaticTable
    /\ qCalls = <<"store", "router">>
    /\ qPoints = << <<8990000, 38791000>>, <<9031000, 38766000>> >>
    /\ qResponse[1].status_code = 200

(***************************************************************************)
(* Properties of concurrent requests and their sessions.                   *)
(***************************************************************************)
\* the handler of client c has returned or raised
HandlerLeft(c) == cReq[c].pc \in {"returned", "raised", "finished"}

\* the handler of client c raised an HTTPException
HandlerRaised(c) ==
    /\ cReq[c].kind \in {"plan", "nearby"}
    /\ cReq[c].result # <<>>
    /\ cReq[c].result[1].status_code # 200

\* C25: every session a request takes through get_db is released on every
\* exit path: when the request has finished its session is closed, whether
\* the handler returned or raised; when the handler raised, a rollback was
\* issued before the close and the exception was raised again; and no
\* session stays open after its request has finished.
C25_SessionReleased ==
    /\ \A c \in Clients :
          (cReq[c].pc = "finished" /\ cReq[c].db # 0) =>
              LET session == cSessions[cReq[c].db]
              IN  /\ session.state = "closed"
                  /\ session.busy = 0
                  /\ IF HandlerRaised(c)
                     THEN /\ session.events = <<"rollback", "close", "close">>
                          /\ cReq[c].outcome = "exception"
                     ELSE /\ session.events = <<"close", "close">>
                          /\ cReq[c].outcome = "response"
    /\ \A s \in DOMAIN cSessions :
          cSessions[s].state = "open" =>
              \E c \in Clients : cReq[c].db = s /\ cReq[c].pc \notin {"idle", "finished"}

\* a plan request whose handler raised has finished while the request of
\* the other client, which returned, has finished too
C25_Witness ==
    /\ cReq[1].pc = "finished" /\ cReq[1].kind = "plan" /\ HandlerRaised(1)
    /\ cSessions[cReq[1].db].events = <<"rollback", "close", "close">>
    /\ cReq[2].pc = "finished" /\ cReq[2].kind = "nearby" /\ ~HandlerRaised(2)
    /\ cSessions[cReq[2].db].events = <<"close", "close">>

\* what the request of client c returns when it runs alone against the same
\* tables, with the answers the store and the routing service gave it
Alone(c) == Run([cReq[c] EXCEPT !.oks = cReq[c].answers], store, taxis)

\* C26: however two concurrent requests (resolve, search, plan, nearby
\* taxis) interleave at their awaits of the store and the routing service,
\* each uses a session of its own, never the other's, and returns what it
\* would return if it ran alone against the same store and the same
\* answers of the routing service.
C26_RequestsIsolated ==
    /\ \A c1, c2 \in Clients :
          (c1 # c2 /\ cReq[c1].db # 0 /\ cReq[c2].db # 0) => cReq[c1].db # cReq[c2].db
    /\ \A s \in DOMAIN cSessions :
          cSessions[s].busy # 0 => cReq[cSessions[s].busy].db = s
    /\ \A c \in Clients :
          HandlerLeft(c) =>
              LET alone == Alone(c)
              IN  /\ alone.value = cReq[c].result
                  /\ alone.next = "raised" <=>
                          (cReq[c].pc = "raised" \/ cReq[c].outcome = "exception")

\* client 1 sent its statement first; client 2 started later, got the answer
\* of the store and returned while client 1 still waits
C26_Witness ==
    /\ cReq[1].pc = "await_store"
    /\ cReq[1].kind = "nearby"
    /\ cReq[2].pc = "finished"
    /\ cReq[2].kind = "resolve"
    /\ cReq[2].answers = <<TRUE>>
    /\ cReq[2].result[1].tier = "STORE_EXACT"
    /\ cReq[1].db < cReq[2].db

\* C27: no sequence of resolve, search, nearby-taxis, plan, calculateFare
\* and estimateFareRange calls, succeeding or failing, changes the gazetteer
\* table, the pricing parameters or a record of the store: the operations
\* only read.
C27_OnlyReads ==
    [][/\ gazetteer' = gazetteer
       /\ pricing' = pricing
       /\ store' = store
       /\ taxis' = taxis
       /\ routes' = routes]_vars

\* requests of two kinds have finished, one of which failed, and the tables
\* are what they were
C27_Witness ==
    /\ cReq[1].pc = "finished" /\ cReq[1].kind = "fare"
    /\ cReq[2].pc = "finished" /\ cReq[2].kind = "plan" /\ HandlerRaised(2)
    /\ gazetteer = common_locations
    /\ pricing = PricingParameters
    /\ store = <<LocationPool[2]>>

====
